---- MODULE Spec2Model ----
(***************************************************************************)
(* The plot sink: placement, concurrency and the two-stage transfer.       *)
(*                                                                         *)
(* One process per accepted connection (sink.handleConnection), the main   *)
(* goroutine (accept loop and final wait), the signal goroutine and the    *)
(* pause timers.  A step of a handler is one operation on shared state:    *)
(* an atomic load/store/add, taking a sort lock, the walk of one group     *)
(* with the release of its lock, one call of the comparison of a sort, one *)
(* system call on the file system, one wait for the network.  A handler    *)
(* that finds a sort lock taken waits: its step is not enabled until the   *)
(* lock is free.  io.Copy is one step per                                  *)
(* byte; the directio writer keeps the bytes in its buffer and writes them *)
(* to the file a buffer at a time, the rest in Flush.  A panic unwinds the *)
(* handler through its deferred calls, one per step, and the goroutines    *)
(* run until the runtime ends the process.                                 *)
(***************************************************************************)
EXTENDS Integers, Sequences, FiniteSets, TLC

\* ------------------------------------------------------------------ bounds
\* connections the listener accepts in one run
MaxConns == 2
\* largest plot size a producer declares (bytes)
MaxSize == 2

\* ------------------------------------------------------------ configuration
Conns == 1..MaxConns
Sizes == 1..MaxSize
Names == {"p01", "p02"}
\* the base names a file of the model can have: a plot name, or nothing
\* before the extension (the file ".tmp"); the names the producers of the
\* specifications send resolve to these
BaseNames == Names \cup {""}
Exts == {"tmp", "final"}
Nil == "nil"
NoFile == [owner |-> 0, src |-> 0, len |-> 0]

\* config.yaml: the cache group and the destination groups, paths in
\* configuration order
CacheGroup == "cache"
DestGroups == {"G1", "G2"}
Groups == DestGroups \cup {CacheGroup}
GroupPaths == [cache |-> <<"c1", "c2">>, G1 |-> <<"d1", "d2">>, G2 |-> <<"d3">>]
CachePaths == {"c1", "c2"}
DestPaths == {"d1", "d2", "d3"}
Paths == CachePaths \cup DestPaths
\* the directories above the configured paths: /mnt/plots holds the cache
\* paths, /mnt holds the destination paths and /mnt/plots, / holds /mnt
Dirs == Paths \cup {"plots", "mnt", "root"}
NoDir == "nodir"
\* the name of each directory in the directory above it
DirName == [c1 |-> "cache1", c2 |-> "cache2", d1 |-> "local-chia01",
            d2 |-> "local-chia02", d3 |-> "jbod01-chia01",
            plots |-> "plots", mnt |-> "mnt", root |-> ""]
\* bytes each file system holds when empty
Capacity == [c1 |-> 2, c2 |-> 1, d1 |-> 2, d2 |-> 1, d3 |-> 1,
             plots |-> 2, mnt |-> 2, root |-> 2]
\* directio.BufferSize: the bytes the writer collects before it writes
\* them to the file
BufferSize == 2
\* configGroup.Concurrency of each group, one entry per configuration
Configs ==
  { [cache |-> 1, G1 |-> 1, G2 |-> 1],
    [cache |-> 3, G1 |-> 1, G2 |-> 1] }
\* a second config.yaml: one destination group, G1, that holds the three
\* destination paths (no group G2), with the concurrency of the example
\* configuration (8, more than it has paths)
WidePaths ==
  [cache |-> <<"c1", "c2">>, G1 |-> <<"d1", "d2", "d3">>, G2 |-> <<>>]
WideConfigs == { [cache |-> 3, G1 |-> 8, G2 |-> 0] }
\* the locks of the sorted sequences: sink.sortMutex and the sortMutex of
\* each group
SinkLock == "sink"
SortLocks == Groups \cup {SinkLock}

\* the files the handlers create: the handler of connection h creates one
\* file on a cache path (sink.go:419) and one on a destination (484)
Inodes == 1..(2 * MaxConns)
cacheIno(h) == h
destIno(h) == MaxConns + h
Creator(i) == IF i > MaxConns THEN i - MaxConns ELSE i
NoInode == [dir |-> NoDir, src |-> 0, len |-> 0, open |-> 0]

VARIABLES
  proc,            \* main goroutine: "accept", "wait" (about to call
                   \* s.wg.Wait), "waiting" (asleep on its semaphore),
                   \* "released" (the semaphore released), "returning" (Wait
                   \* has returned, main is on its way out), "panicking"
                   \* (Wait has panicked); the process ended: "exited"
                   \* (status 0) or "crashed" (status 2, after a panic)
  listenerClosed,  \* s.listener closed by the signal goroutine
  wg,              \* s.wg: the counter (high half of its state)
  waiters,         \* s.wg: the waiters (low half of its state)
  concurrency,     \* plotGroup.concurrency
  transfers,       \* plotGroup.transfers
  sortedGroups,    \* sink.sortedGroups
  sortedPlots,     \* plotGroup.sortedPlots
  sortMutex,       \* sink.sortMutex and plotGroup.sortMutex, each a
                   \* sync.RWMutex: w, the connection whose Lock has the
                   \* writers' mutex (it holds the lock once the readers have
                   \* left), or 0; r, the connections holding a read lock
  busy,            \* plotPath.busy
  paused,          \* plotPath.paused
  ptransfers,      \* plotPath.transfers
  freeSpace,       \* plotPath.freeSpace
  mutex,           \* plotPath.mutex: the connection holding it, or 0
  timers,          \* time.AfterFunc timers per path: how many have their 5
                   \* minutes still running (pending), how many have them
                   \* behind (due) and their function not yet run
  fs,              \* the directories: <<dir, name, ext>> -> the file linked
                   \* under that name, or 0
  inode,           \* the files: the directory (file system) a file was
                   \* created in, whose payload it holds, its length and the
                   \* number of descriptors open on it; a file lives while it
                   \* has a name or an open descriptor
  pc,              \* position of each connection's handler
  conn,            \* each connection: state and ack bytes written to it
  size,            \* handleConnection: size
  pg,              \* handleConnection: pg
  plot,            \* handleConnection: plot
  cachePlot,       \* handleConnection: cachePlot
  fnlenBytes,      \* handleTransfer: fnlenBytes
  filename,        \* handleTransfer: filename
  sent,            \* payload bytes io.Copy has taken from the connection
  dio,             \* handleTransfer, handleMove: dio, the bytes in the
                   \* buffer of the directio writer
  stat,            \* updateFreeSpace: stat, the free bytes unix.Statfs
                   \* reported
  tf,              \* handleMove: tf, the file os.Open returned, or 0
  err,             \* handleTransfer, handleMove: err of io.Copy ("conn",
                   \* "tf"); "panic" while a panic unwinds the handler
  ok,              \* handleConnection: ok
  locked,          \* handleConnection: what plot.mutex.TryLock() returned
  rivals,          \* history: the connections that held the same pick, not yet
                   \* locked, when this connection picked its path
  unsorted,        \* history: the destination paths of the groups this
                   \* connection's pick walked whose handler had stored their
                   \* new free space (382) and not yet sorted the group (384)
  walk,            \* sink.pickPlot: the index in s.sortedGroups the loop has
                   \* reached, 0 outside the loop
  ins              \* slices.SortStableFunc: i and j of the insertion sort, the
                   \* next call of cmp compares data[j] with data[j-1]

vars == <<proc, listenerClosed, wg, concurrency, transfers, sortedGroups,
          sortedPlots, busy, paused, ptransfers, freeSpace, mutex, timers, fs,
          inode, pc, conn, size, pg, plot, cachePlot, fnlenBytes, filename,
          sent, dio, stat, tf, err, ok, locked, rivals, waiters, sortMutex,
          unsorted, walk, ins>>

sinkVars == <<concurrency, sortMutex, transfers, sortedGroups, sortedPlots,
              busy, paused, ptransfers, freeSpace, mutex, timers, fs, inode>>
mainVars == <<proc, listenerClosed, wg, waiters>>
localVars == <<size, pg, plot, cachePlot, fnlenBytes, filename, sent, dio,
               stat, tf, err, ok, locked, rivals, unsorted, walk, ins>>

\* ------------------------------------------------------------------ helpers
\* the goroutines run until the runtime ends the process: exit(0) once
\* main has returned, exit(2) once a panic has been reported
Alive == proc \notin {"exited", "crashed"}

\* slices.SortStableFunc with cmp.Compare on key: ascending, equal elements
\* keep their order
RECURSIVE SortStableFunc(_, _)
SortStableFunc(seq, key) ==
  IF seq = <<>> THEN <<>>
  ELSE LET init == SortStableFunc(SubSeq(seq, 1, Len(seq) - 1), key)
           x == seq[Len(seq)]
           k == Cardinality({i \in 1..Len(init) : key[init[i]] <= key[x]})
       IN SubSeq(init, 1, k) \o <<x>> \o SubSeq(init, k + 1, Len(init))

\* slices.SortStableFunc on fewer than 20 elements is one insertion sort:
\*   for i := 1; i < n; i++ {
\*     for j := i; j > 0 && cmp(data[j], data[j-1]) < 0; j-- { swap } }
\* (indices from 0).  The position s holds i and j, from 1: the next call of
\* cmp compares seq[s.j] with seq[s.j - 1], reading the key of both.
InsStart == [i |-> 2, j |-> 2]

InsLess(seq, s, key) == key[seq[s.j]] < key[seq[s.j - 1]]

\* the sequence after that call: the two elements swapped, or as it was
InsSeq(seq, s, key) ==
  IF InsLess(seq, s, key)
  THEN [seq EXCEPT ![s.j] = seq[s.j - 1], ![s.j - 1] = seq[s.j]]
  ELSE seq

\* the position after that call: one down, or the next element
InsNext(seq, s, key) ==
  IF InsLess(seq, s, key) /\ s.j > 2
  THEN [i |-> s.i, j |-> s.j - 1]
  ELSE [i |-> s.i + 1, j |-> s.i + 1]

\* the sort has no call of cmp left
InsDone(seq, s) == s.i > Len(seq)

\* plotGroup.sortPaths with no store during the sort: by free space,
\* descending
sortPaths(g, free) ==
  SortStableFunc(sortedPlots[g], [p \in Paths |-> 0 - free[p]])

\* the bytes of a set of files
RECURSIVE SumLen(_, _)
SumLen(files, S) ==
  IF S = {} THEN 0
  ELSE LET f == CHOOSE x \in S : TRUE
       IN files[f].len + SumLen(files, S \ {f})

\* bytes in use on the file system of directory p: the files created there
\* that still have a name or an open descriptor
Used(files, p) == SumLen(files, {i \in DOMAIN files : files[i].dir = p})

\* plotPath.updateFreeSpace: unix.Statfs, Bavail * Bsize
updateFreeSpace(files, p) == Capacity[p] - Used(files, p)

\* mutant of walkPlots: the size check also turns away a path whose free
\* space equals the size
RECURSIVE walkPlotsRejectsTie(_, _)
walkPlotsRejectsTie(seq, sz) ==
  IF seq = <<>> THEN Nil
  ELSE LET v == Head(seq) IN
       IF busy[v] THEN walkPlotsRejectsTie(Tail(seq), sz)
       ELSE IF paused[v] THEN walkPlotsRejectsTie(Tail(seq), sz)
       ELSE IF sz >= freeSpace[v] THEN Nil
       ELSE v

\* plotGroup.pickPlot, the walk of sortedPlots
RECURSIVE walkPlots(_, _)
walkPlots(seq, sz) ==
  IF seq = <<>> THEN Nil
  ELSE LET v == Head(seq) IN
       IF busy[v] THEN walkPlots(Tail(seq), sz)
       ELSE IF paused[v] THEN walkPlots(Tail(seq), sz)
       ELSE IF sz > freeSpace[v] THEN Nil
       ELSE v

\* plotGroup.pickPlot
pickPlot(g, sz) ==
  IF transfers[g] >= concurrency[g] THEN Nil
  ELSE walkPlots(sortedPlots[g], sz)

\* newPlotGroup: concurrency is capped at the number of paths unless
\* allowExcessConcurrency
newConcurrency(cfg, paths, allowExcessConcurrency) ==
  IF ~allowExcessConcurrency /\ cfg > Len(paths)
  THEN Len(paths) ELSE cfg

\* plotPath.pause, time.AfterFunc(5*time.Minute, ...): one more timer of
\* its own, whatever timers are pending
addTimer(t, p) == [t EXCEPT ![p].pending = @ + 1]

\* --------------------------------------------------- sync.RWMutex
\* RLock: waits while a Lock has the writers' mutex (a writer holds the lock
\* or waits for the readers to leave: new readers stay out)
RLock(m, h) ==
  /\ sortMutex[m].w = 0
  /\ sortMutex' = [sortMutex EXCEPT ![m].r = @ \cup {h}]

RUnlock(m, h) == sortMutex' = [sortMutex EXCEPT ![m].r = @ \ {h}]

\* Lock, first part: the writers' mutex, which waits for the writer before
\* it, and the announcement that keeps new readers out
Lock(m, h) ==
  /\ sortMutex[m].w = 0
  /\ sortMutex' = [sortMutex EXCEPT ![m].w = h]

\* Lock, second part: it returns once the readers that were in have left
Locked(m, h) == sortMutex[m].w = h /\ sortMutex[m].r = {}

Unlock(m) == sortMutex' = [sortMutex EXCEPT ![m].w = 0]

\* ------------------------------------------------------------------- Init
\* newSink, newPlotGroup for the groups and paths of a config.yaml: every
\* group sorted by free space (all file systems empty), the cache group then
\* by transfers; the destination groups are appended in Go's map iteration
\* order, which is any order (orders)
newSink(paths, orders, cfgs) ==
  /\ proc = "accept"
  /\ listenerClosed = FALSE
  /\ wg = 0
  /\ waiters = 0
  /\ \E cfg \in cfgs :
       concurrency = [g \in Groups |->
                        newConcurrency(cfg[g], paths[g], g = CacheGroup)]
  /\ sortMutex = [m \in SortLocks |-> [w |-> 0, r |-> {}]]
  /\ transfers = [g \in Groups |-> 0]
  /\ sortedGroups \in orders
  /\ sortedPlots = [g \in Groups |->
        SortStableFunc(paths[g], [p \in Paths |-> 0 - Capacity[p]])]
  /\ busy = [p \in Paths |-> FALSE]
  /\ paused = [p \in Paths |-> FALSE]
  /\ ptransfers = [p \in Paths |-> 0]
  /\ freeSpace = [p \in Paths |-> Capacity[p]]
  /\ mutex = [p \in Paths |-> 0]
  /\ timers = [p \in Paths |-> [pending |-> 0, due |-> 0]]
  /\ fs = [f \in Dirs \X BaseNames \X Exts |-> 0]
  /\ inode = [i \in Inodes |-> NoInode]
  /\ pc = [h \in Conns |-> "idle"]
  /\ conn = [h \in Conns |-> [state |-> "none", acks |-> 0]]
  /\ size = [h \in Conns |-> 0]
  /\ pg = [h \in Conns |-> Nil]
  /\ plot = [h \in Conns |-> Nil]
  /\ cachePlot = [h \in Conns |-> Nil]
  /\ fnlenBytes = [h \in Conns |-> <<0, 0>>]
  /\ filename = [h \in Conns |-> ""]
  /\ sent = [h \in Conns |-> 0]
  /\ dio = [h \in Conns |-> 0]
  /\ stat = [h \in Conns |-> 0]
  /\ tf = [h \in Conns |-> 0]
  /\ err = [h \in Conns |-> Nil]
  /\ ok = [h \in Conns |-> FALSE]
  /\ locked = [h \in Conns |-> FALSE]
  /\ rivals = [h \in Conns |-> {}]
  /\ unsorted = [h \in Conns |-> {}]
  /\ walk = [h \in Conns |-> 0]
  /\ ins = [h \in Conns |-> InsStart]

\* the sink of config.yaml: two destination groups
Init == newSink(GroupPaths, {<<"G1", "G2">>, <<"G2", "G1">>}, Configs)

\* the sink of the second config.yaml: one destination group
InitWide == newSink(WidePaths, {<<"G1">>}, WideConfigs)

\* ------------------------------------------------------- main goroutine
\* main: conn, err := s.listener.Accept(); go s.handleConnection(conn)
Accept(h) ==
  /\ proc = "accept"
  /\ ~listenerClosed
  /\ pc[h] = "idle"
  /\ \A g \in Conns : g < h => pc[g] # "idle"
  /\ pc' = [pc EXCEPT ![h] = "spawned"]
  /\ conn' = [conn EXCEPT ![h].state = "open"]
  /\ UNCHANGED <<mainVars, sinkVars, localVars>>

\* main: the signal goroutine, s.listener.Close()
Signal ==
  /\ Alive
  /\ ~listenerClosed
  /\ listenerClosed' = TRUE
  /\ UNCHANGED <<proc, wg, waiters, sinkVars, localVars, pc, conn>>

\* main: Accept returns an error once the listener is closed; break
AcceptError ==
  /\ proc = "accept"
  /\ listenerClosed
  /\ proc' = "wait"
  /\ UNCHANGED <<listenerClosed, wg, waiters, sinkVars, localVars, pc, conn>>

\* main: s.wg.Wait().  With the counter at zero it returns (the load of the
\* state); else it adds itself to the waiters (the compare-and-swap on the
\* state it loaded) and sleeps on the semaphore.
Wait ==
  /\ proc = "wait"
  /\ IF wg = 0
     THEN proc' = "returning" /\ UNCHANGED waiters
     ELSE proc' = "waiting" /\ waiters' = waiters + 1
  /\ UNCHANGED <<listenerClosed, wg, sinkVars, localVars, pc, conn>>

\* main: s.wg.Wait() after the semaphore was released: it loads the state
\* and returns, or, the state not being zero (an Add since the release), it
\* panics ("WaitGroup is reused before previous Wait has returned")
WaitReturn ==
  /\ proc = "released"
  /\ proc' = IF wg = 0 /\ waiters = 0 THEN "returning" ELSE "panicking"
  /\ UNCHANGED <<listenerClosed, wg, waiters, sinkVars, localVars, pc, conn>>

\* main returns from s.wg.Wait() and from main, and the runtime ends the
\* process with status 0, whatever the other goroutines are doing
Exit ==
  /\ proc = "returning"
  /\ proc' = "exited"
  /\ UNCHANGED <<listenerClosed, wg, waiters, sinkVars, localVars, pc, conn>>

\* the runtime ends the process after the panic of s.wg.Wait() in main
CrashMain ==
  /\ proc = "panicking"
  /\ proc' = "crashed"
  /\ UNCHANGED <<listenerClosed, wg, waiters, sinkVars, localVars, pc, conn>>

\* the runtime ends the process after an unrecovered panic in the goroutine
\* of h has run the deferred calls
Crash(h) ==
  /\ Alive
  /\ pc[h] = "panicked"
  /\ proc' = "crashed"
  /\ UNCHANGED <<listenerClosed, wg, waiters, sinkVars, localVars, pc, conn>>

\* ------------------------------------------------- sink.handleConnection
closeConn(h) == [conn EXCEPT ![h].state = "closed"]

\* s.wg.Add(1): the counter goes up by one.  With a waiter registered and
\* the counter now 1 (it was at zero: a Done is about to release the waiter)
\* Add panics ("WaitGroup misuse: Add called concurrently with Wait"); no
\* deferred call is registered yet.
WgAdd(h) ==
  /\ Alive
  /\ pc[h] = "spawned"
  /\ wg' = wg + 1
  /\ IF waiters # 0 /\ wg + 1 = 1
     THEN /\ pc' = [pc EXCEPT ![h] = "panicked"]
          /\ err' = [err EXCEPT ![h] = "panic"]
     ELSE /\ pc' = [pc EXCEPT ![h] = "readSize"]
          /\ UNCHANGED err
  /\ UNCHANGED <<proc, listenerClosed, waiters, sinkVars, conn, size, pg,
                 plot, cachePlot, fnlenBytes, filename, sent, dio, stat, tf,
                 ok, locked, rivals, unsorted, walk, ins>>

\* conn.Read(sizeBytes): a read error closes and returns
ReadSize(h, sizes) ==
  /\ Alive
  /\ pc[h] = "readSize"
  /\ \/ /\ conn' = closeConn(h)
        /\ pc' = [pc EXCEPT ![h] = "dWgDone"]
        /\ UNCHANGED size
     \/ /\ \E sz \in sizes : size' = [size EXCEPT ![h] = sz]
        /\ pc' = [pc EXCEPT ![h] = "pickRLock"]
        /\ UNCHANGED conn
  /\ UNCHANGED <<mainVars, sinkVars, pg, plot, cachePlot, fnlenBytes,
                 filename, sent, dio, stat, tf, err, ok, locked, rivals,
                 unsorted, walk, ins>>

\* s.pickPlot(size): s.sortMutex.RLock(), and the loop over s.sortedGroups
\* begins
PickRLock(h) ==
  /\ Alive
  /\ pc[h] = "pickRLock"
  /\ RLock(SinkLock, h)
  /\ walk' = [walk EXCEPT ![h] = 1]
  /\ pc' = [pc EXCEPT ![h] = "pgRLock"]
  /\ UNCHANGED <<mainVars, concurrency, transfers, sortedGroups, sortedPlots,
                 busy, paused, ptransfers, freeSpace, mutex, timers, fs, inode,
                 conn, size, pg, plot, cachePlot, fnlenBytes, filename, sent,
                 dio, stat, tf, err, ok, locked, rivals, unsorted, ins>>

\* pg.pickPlot(size) of the group the loop has reached: pg.sortMutex.RLock()
PgRLock(h) ==
  /\ Alive
  /\ pc[h] = "pgRLock"
  /\ RLock(sortedGroups[walk[h]], h)
  /\ pc' = [pc EXCEPT ![h] = "pickPlot"]
  /\ UNCHANGED <<mainVars, concurrency, transfers, sortedGroups, sortedPlots,
                 busy, paused, ptransfers, freeSpace, mutex, timers, fs, inode,
                 conn, localVars>>

\* the paths of the groups gs whose handler has stored the new free space
\* (382) and has not sorted the group after it (384)
Unsorted(gs) ==
  {plot[k] : k \in {c \in Conns :
                     /\ pc[c] \in {"updateFreeSpaceCache",
                                   "storeFreeSpaceCache", "sortPathsLock",
                                   "sortPaths"}
                     /\ pg[c] \in gs}}

\* pg.pickPlot(size) of the group the loop has reached, under the read lock
\* of the group: the check of the cap, the walk of the paths and the
\* deferred pg.sortMutex.RUnlock().  A path ends the loop of s.pickPlot, nil
\* takes it to the next group, or to its end.
PickPlot(h) ==
  /\ Alive
  /\ pc[h] = "pickPlot"
  /\ LET g == sortedGroups[walk[h]]
         pp == pickPlot(g, size[h])
     IN /\ RUnlock(g, h)
        /\ unsorted' = [unsorted EXCEPT ![h] = @ \cup Unsorted({g})]
        /\ IF pp # Nil
           THEN /\ pg' = [pg EXCEPT ![h] = g]
                /\ plot' = [plot EXCEPT ![h] = pp]
                /\ rivals' = [rivals EXCEPT ![h] =
                     {c \in Conns : /\ pc[c] \in {"pickRUnlock", "TryLock"}
                                    /\ plot[c] = pp}]
                /\ walk' = [walk EXCEPT ![h] = 0]
                /\ pc' = [pc EXCEPT ![h] = "pickRUnlock"]
           ELSE /\ IF walk[h] < Len(sortedGroups)
                   THEN /\ walk' = [walk EXCEPT ![h] = @ + 1]
                        /\ pc' = [pc EXCEPT ![h] = "pgRLock"]
                   ELSE /\ walk' = [walk EXCEPT ![h] = 0]
                        /\ pc' = [pc EXCEPT ![h] = "pickRUnlock"]
                /\ UNCHANGED <<pg, plot, rivals>>
  /\ UNCHANGED <<mainVars, concurrency, transfers, sortedGroups, sortedPlots,
                 busy, paused, ptransfers, freeSpace, mutex, timers, fs, inode,
                 conn, size, cachePlot, fnlenBytes, filename, sent, dio, stat,
                 tf, err, ok, locked, ins>>

\* s.pickPlot returns: the deferred s.sortMutex.RUnlock(); pg, plot are what
\* the loop ended with
PickRUnlock(h) ==
  /\ Alive
  /\ pc[h] = "pickRUnlock"
  /\ RUnlock(SinkLock, h)
  /\ pc' = [pc EXCEPT ![h] = IF plot[h] = Nil THEN "nilClose" ELSE "TryLock"]
  /\ UNCHANGED <<mainVars, concurrency, transfers, sortedGroups, sortedPlots,
                 busy, paused, ptransfers, freeSpace, mutex, timers, fs, inode,
                 conn, localVars>>

\* if plot == nil: conn.Close(), then the log line, which reads
\* plot.freeSpace of the nil plot, a nil pointer dereference.  The panic unwinds the handler: its
\* deferred s.wg.Done() is next.
NilClose(h) ==
  /\ Alive
  /\ pc[h] = "nilClose"
  /\ conn' = closeConn(h)
  /\ err' = [err EXCEPT ![h] = "panic"]
  /\ pc' = [pc EXCEPT ![h] = "dWgDone"]
  /\ UNCHANGED <<mainVars, sinkVars, size, pg, plot, cachePlot, fnlenBytes,
                 filename, sent, dio, stat, tf, ok, locked, rivals, unsorted,
                 walk, ins>>

\* mutant of TryLock: the lock is taken whoever holds it
TryLockNoCheck(h) ==
  /\ Alive
  /\ pc[h] = "TryLock"
  /\ mutex' = [mutex EXCEPT ![plot[h]] = h]
  /\ locked' = [locked EXCEPT ![h] = TRUE]
  /\ pc' = [pc EXCEPT ![h] = "busyStore"]
  /\ UNCHANGED <<mainVars, concurrency, sortMutex, transfers, sortedGroups,
                 sortedPlots, busy, paused, ptransfers, freeSpace, timers, fs,
                 inode, conn, size, pg, plot, cachePlot, fnlenBytes, filename,
                 sent, dio, stat, tf, err, ok, rivals, unsorted, walk, ins>>

\* mutant of TryLock: the handler that finds the mutex held returns without
\* closing its connection
TryLockKeepsOpen(h) ==
  /\ Alive
  /\ pc[h] = "TryLock"
  /\ IF mutex[plot[h]] = 0
     THEN /\ mutex' = [mutex EXCEPT ![plot[h]] = h]
          /\ locked' = [locked EXCEPT ![h] = TRUE]
          /\ pc' = [pc EXCEPT ![h] = "busyStore"]
     ELSE /\ pc' = [pc EXCEPT ![h] = "dWgDone"]
          /\ UNCHANGED <<mutex, locked>>
  /\ UNCHANGED <<mainVars, concurrency, sortMutex, transfers, sortedGroups,
                 sortedPlots, busy, paused, ptransfers, freeSpace, timers, fs,
                 inode, conn, size, pg, plot, cachePlot, fnlenBytes, filename,
                 sent, dio, stat, tf, err, ok, rivals, unsorted, walk, ins>>

\* mutant of TryLock: the path is marked busy before the lock is tried
TryLockMarksBusy(h) ==
  /\ Alive
  /\ pc[h] = "TryLock"
  /\ busy' = [busy EXCEPT ![plot[h]] = TRUE]
  /\ IF mutex[plot[h]] = 0
     THEN /\ mutex' = [mutex EXCEPT ![plot[h]] = h]
          /\ locked' = [locked EXCEPT ![h] = TRUE]
          /\ pc' = [pc EXCEPT ![h] = "busyStore"]
          /\ UNCHANGED conn
     ELSE /\ conn' = closeConn(h)
          /\ pc' = [pc EXCEPT ![h] = "dWgDone"]
          /\ UNCHANGED <<mutex, locked>>
  /\ UNCHANGED <<mainVars, concurrency, sortMutex, transfers, sortedGroups,
                 sortedPlots, paused, ptransfers, freeSpace, timers, fs,
                 inode, size, pg, plot, cachePlot, fnlenBytes, filename, sent,
                 dio, stat, tf, err, ok, rivals, unsorted, walk, ins>>

\* if !plot.mutex.TryLock() { conn.Close(); return }
TryLock(h) ==
  /\ Alive
  /\ pc[h] = "TryLock"
  /\ IF mutex[plot[h]] = 0
     THEN /\ mutex' = [mutex EXCEPT ![plot[h]] = h]
          /\ locked' = [locked EXCEPT ![h] = TRUE]
          /\ pc' = [pc EXCEPT ![h] = "busyStore"]
          /\ UNCHANGED conn
     ELSE /\ conn' = closeConn(h)
          /\ pc' = [pc EXCEPT ![h] = "dWgDone"]
          /\ UNCHANGED <<mutex, locked>>
  /\ UNCHANGED <<mainVars, concurrency, sortMutex, transfers, sortedGroups,
                 sortedPlots, busy, paused, ptransfers, freeSpace, timers, fs,
                 inode, size, pg, plot, cachePlot, fnlenBytes, filename, sent,
                 dio, stat, tf, err, ok, rivals, unsorted, walk, ins>>

\* plot.busy.Store(true)
BusyStore(h) ==
  /\ Alive
  /\ pc[h] = "busyStore"
  /\ busy' = [busy EXCEPT ![plot[h]] = TRUE]
  /\ pc' = [pc EXCEPT ![h] = "cacheGroupAdd"]
  /\ UNCHANGED <<mainVars, concurrency, sortMutex, transfers, sortedGroups,
                 sortedPlots, paused, ptransfers, freeSpace, mutex, timers,
                 fs, inode, conn, localVars>>

\* s.cacheGroup.transfers.Add(1)
CacheGroupAdd(h) ==
  /\ Alive
  /\ pc[h] = "cacheGroupAdd"
  /\ transfers' = [transfers EXCEPT ![CacheGroup] = @ + 1]
  /\ pc' = [pc EXCEPT ![h] = "pgAdd"]
  /\ UNCHANGED <<mainVars, concurrency, sortMutex, sortedGroups, sortedPlots,
                 busy, paused, ptransfers, freeSpace, mutex, timers, fs,
                 inode, conn, localVars>>

\* pg.transfers.Add(1)
PgAdd(h) ==
  /\ Alive
  /\ pc[h] = "pgAdd"
  /\ transfers' = [transfers EXCEPT ![pg[h]] = @ + 1]
  /\ pc' = [pc EXCEPT ![h] = "sortGroupsLock"]
  /\ UNCHANGED <<mainVars, concurrency, sortMutex, sortedGroups, sortedPlots,
                 busy, paused, ptransfers, freeSpace, mutex, timers, fs,
                 inode, conn, localVars>>

\* s.sortGroups(), line 354 and the deferred call: s.sortMutex.Lock(), as
\* far as the writers' mutex
SortGroupsLock(h) ==
  /\ Alive
  /\ pc[h] \in {"sortGroupsLock", "dSortGroupsLock"}
  /\ Lock(SinkLock, h)
  /\ pc' = [pc EXCEPT ![h] = IF pc[h] = "sortGroupsLock" THEN "sortGroups"
                                                          ELSE "dSortGroups"]
  /\ UNCHANGED <<mainVars, concurrency, transfers, sortedGroups, sortedPlots,
                 busy, paused, ptransfers, freeSpace, mutex, timers, fs, inode,
                 conn, localVars>>

\* s.sortGroups(), the lock taken once the readers have left: one call of
\* cmp, which loads the transfers of two groups; after the last one the
\* deferred s.sortMutex.Unlock()
SortGroups(h) ==
  /\ Alive
  /\ pc[h] \in {"sortGroups", "dSortGroups"}
  /\ Locked(SinkLock, h)
  /\ LET seq == IF InsDone(sortedGroups, ins[h]) THEN sortedGroups
                ELSE InsSeq(sortedGroups, ins[h], transfers)
         s == IF InsDone(sortedGroups, ins[h]) THEN ins[h]
              ELSE InsNext(sortedGroups, ins[h], transfers)
     IN /\ sortedGroups' = seq
        /\ IF InsDone(seq, s)
           THEN /\ Unlock(SinkLock)
                /\ ins' = [ins EXCEPT ![h] = InsStart]
                /\ pc' = [pc EXCEPT ![h] =
                            IF pc[h] = "sortGroups" THEN "pickCacheRLock"
                                                    ELSE "dCacheGroupAdd"]
           ELSE /\ ins' = [ins EXCEPT ![h] = s]
                /\ UNCHANGED <<sortMutex, pc>>
  /\ UNCHANGED <<mainVars, concurrency, transfers, sortedPlots, busy, paused,
                 ptransfers, freeSpace, mutex, timers, fs, inode, conn, size,
                 pg, plot, cachePlot, fnlenBytes, filename, sent, dio, stat, tf,
                 err, ok, locked, rivals, unsorted, walk>>

\* s.cacheGroup.pickPlot(size): pg.sortMutex.RLock()
PickCacheRLock(h) ==
  /\ Alive
  /\ pc[h] = "pickCacheRLock"
  /\ RLock(CacheGroup, h)
  /\ pc' = [pc EXCEPT ![h] = "pickCache"]
  /\ UNCHANGED <<mainVars, concurrency, transfers, sortedGroups, sortedPlots,
                 busy, paused, ptransfers, freeSpace, mutex, timers, fs, inode,
                 conn, localVars>>

\* mutant of PickCache: the go-ahead byte is written before the result of
\* the cache pick is looked at
PickCacheAcksFirst(h) ==
  /\ Alive
  /\ pc[h] = "pickCache"
  /\ RUnlock(CacheGroup, h)
  /\ LET cp == pickPlot(CacheGroup, size[h]) IN
       IF cp = Nil
       THEN /\ conn' = [conn EXCEPT ![h].acks = @ + 1]
            /\ pc' = [pc EXCEPT ![h] = "cacheNilClose"]
            /\ UNCHANGED cachePlot
       ELSE /\ cachePlot' = [cachePlot EXCEPT ![h] = cp]
            /\ pc' = [pc EXCEPT ![h] = "cachePlotAdd"]
            /\ UNCHANGED conn
  /\ UNCHANGED <<mainVars, concurrency, transfers, sortedGroups, sortedPlots,
                 busy, paused, ptransfers, freeSpace, mutex, timers, fs,
                 inode, size, pg, plot, fnlenBytes, filename, sent, dio, stat,
                 tf, err, ok, locked, rivals, unsorted, walk, ins>>

\* cachePlot := s.cacheGroup.pickPlot(size): the check of the cap, the walk
\* under the read lock and the deferred pg.sortMutex.RUnlock()
PickCache(h) ==
  /\ Alive
  /\ pc[h] = "pickCache"
  /\ RUnlock(CacheGroup, h)
  /\ LET cp == pickPlot(CacheGroup, size[h]) IN
       IF cp = Nil
       THEN /\ pc' = [pc EXCEPT ![h] = "cacheNilClose"]
            /\ UNCHANGED cachePlot
       ELSE /\ cachePlot' = [cachePlot EXCEPT ![h] = cp]
            /\ pc' = [pc EXCEPT ![h] = "cachePlotAdd"]
  /\ UNCHANGED <<mainVars, concurrency, transfers, sortedGroups, sortedPlots,
                 busy, paused, ptransfers, freeSpace, mutex, timers, fs, inode,
                 conn, size, pg, plot, fnlenBytes, filename, sent, dio, stat,
                 tf, err, ok, locked, rivals, unsorted, walk, ins>>

\* if cachePlot == nil { conn.Close(); return }
CacheNilClose(h) ==
  /\ Alive
  /\ pc[h] = "cacheNilClose"
  /\ conn' = closeConn(h)
  /\ pc' = [pc EXCEPT ![h] = "dPgAdd"]
  /\ UNCHANGED <<mainVars, sinkVars, localVars>>

\* cachePlot.transfers.Add(1)
CachePlotAdd(h) ==
  /\ Alive
  /\ pc[h] = "cachePlotAdd"
  /\ ptransfers' = [ptransfers EXCEPT ![cachePlot[h]] = @ + 1]
  /\ pc' = [pc EXCEPT ![h] = "sortCachePathsLock"]
  /\ UNCHANGED <<mainVars, concurrency, sortMutex, transfers, sortedGroups,
                 sortedPlots, busy, paused, freeSpace, mutex, timers, fs,
                 inode, conn, localVars>>

\* s.cacheGroup.sortCachePaths(), line 366 and the deferred call:
\* pg.sortMutex.Lock(), as far as the writers' mutex
SortCachePathsLock(h) ==
  /\ Alive
  /\ pc[h] \in {"sortCachePathsLock", "dSortCachePathsLock"}
  /\ Lock(CacheGroup, h)
  /\ pc' = [pc EXCEPT ![h] = IF pc[h] = "sortCachePathsLock"
                             THEN "sortCachePaths" ELSE "dSortCachePaths"]
  /\ UNCHANGED <<mainVars, concurrency, transfers, sortedGroups, sortedPlots,
                 busy, paused, ptransfers, freeSpace, mutex, timers, fs, inode,
                 conn, localVars>>

\* s.cacheGroup.sortCachePaths(), the lock taken once the readers have
\* left: one call of cmp, which loads the transfers of two paths; after the
\* last one the deferred pg.sortMutex.Unlock()
SortCachePaths(h) ==
  /\ Alive
  /\ pc[h] \in {"sortCachePaths", "dSortCachePaths"}
  /\ Locked(CacheGroup, h)
  /\ LET old == sortedPlots[CacheGroup]
         seq == IF InsDone(old, ins[h]) THEN old
                ELSE InsSeq(old, ins[h], ptransfers)
         s == IF InsDone(old, ins[h]) THEN ins[h]
              ELSE InsNext(old, ins[h], ptransfers)
     IN /\ sortedPlots' = [sortedPlots EXCEPT ![CacheGroup] = seq]
        /\ IF InsDone(seq, s)
           THEN /\ Unlock(CacheGroup)
                /\ ins' = [ins EXCEPT ![h] = InsStart]
                /\ pc' = [pc EXCEPT ![h] =
                            IF pc[h] = "sortCachePaths" THEN "handleTransfer"
                                                        ELSE "dPgAdd"]
           ELSE /\ ins' = [ins EXCEPT ![h] = s]
                /\ UNCHANGED <<sortMutex, pc>>
  /\ UNCHANGED <<mainVars, concurrency, transfers, sortedGroups, busy, paused,
                 ptransfers, freeSpace, mutex, timers, fs, inode, conn, size,
                 pg, plot, cachePlot, fnlenBytes, filename, sent, dio, stat, tf,
                 err, ok, locked, rivals, unsorted, walk>>

\* ------------------------------------------------------- the file system
\* file i has a name
Linked(names, i) == \E k \in DOMAIN names : names[k] = i

\* the files once file i may have lost its last name or descriptor: without
\* either, it is gone and its blocks are free
Reap(names, files, i) ==
  IF i # 0 /\ files[i].open = 0 /\ ~Linked(names, i)
  THEN [files EXCEPT ![i] = NoInode] ELSE files

\* os.Remove(k): unlink the name; no effect when there is no such file
Remove(k) ==
  LET i == IF k \in DOMAIN fs THEN fs[k] ELSE 0
      names == IF i = 0 THEN fs ELSE [fs EXCEPT ![k] = 0]
  IN /\ fs' = names
     /\ inode' = Reap(names, inode, i)

\* (*os.File).Close on a descriptor of file i
Close(i) ==
  /\ inode' = Reap(fs, [inode EXCEPT ![i].open = @ - 1], i)
  /\ UNCHANGED fs

\* os.Rename(old, new), both names in one directory: new names the file,
\* whatever file it named before loses that name
Rename(old, new) ==
  LET names == [fs EXCEPT ![new] = fs[old], ![old] = 0]
  IN /\ fs' = names
     /\ inode' = Reap(names, inode, fs[new])

\* os.OpenFile(k, O_WRONLY|O_EXCL|O_CREATE|O_DIRECT) of a name that is free:
\* a new, empty file i, open once, to hold the payload src
Create(k, i, src) ==
  /\ fs' = [fs EXCEPT ![k] = i]
  /\ inode' = [inode EXCEPT ![i] =
                 [dir |-> k[1], src |-> src, len |-> 0, open |-> 1]]

\* the file a name leads to, as who created it, whose payload it holds and
\* its length
File(k) ==
  IF fs[k] = 0 THEN NoFile
  ELSE [owner |-> Creator(fs[k]), src |-> inode[fs[k]].src,
        len |-> inode[fs[k]].len]

\* bytes the file system of p can still take
Avail(p) == Capacity[p] - Used(inode, p)

\* (*os.File).Write of n bytes to file i: the bytes the file system has
\* room for are written, the write fails (ENOSPC) when these are fewer
Write(i, n) ==
  LET room == Avail(inode[i].dir)
  IN [inode EXCEPT ![i].len = @ + (IF n <= room THEN n ELSE room)]

\* ------------------------------------------------------------ file names
\* the name holds a path separator
HasSeparator(name) == \E i \in 1..Len(name) : SubSeq(name, i, i) = "/"

\* the name ends in suffix
HasSuffix(name, suffix) ==
  /\ Len(name) >= Len(suffix)
  /\ SubSeq(name, Len(name) - Len(suffix) + 1, Len(name)) = suffix

\* the elements of a name between its separators
RECURSIVE Split(_)
Split(name) ==
  IF ~HasSeparator(name) THEN <<name>>
  ELSE LET i == CHOOSE j \in 1..Len(name) :
                  /\ SubSeq(name, j, j) = "/"
                  /\ \A k \in 1..(j - 1) : SubSeq(name, k, k) # "/"
       IN <<SubSeq(name, 1, i - 1)>> \o Split(SubSeq(name, i + 1, Len(name)))

\* the directory above dir; / is above itself
Parent(dir) ==
  IF dir \in CachePaths THEN "plots"
  ELSE IF dir \in DestPaths \cup {"plots"} THEN "mnt"
  ELSE IF dir \in {"mnt", "root"} THEN "root"
  ELSE NoDir

\* the directory called name in dir, if there is one
Child(dir, name) ==
  IF \E d \in Dirs : Parent(d) = dir /\ DirName[d] = name
  THEN CHOOSE d \in Dirs : Parent(d) = dir /\ DirName[d] = name
  ELSE NoDir

\* filepath.Clean on the path of dir followed by the elements elems, as the
\* directory reached by the ".." that climb out of the name and the
\* elements that remain below it: empty elements and "." are dropped, ".."
\* takes away the element before it
RECURSIVE Clean(_, _, _)
Clean(dir, below, elems) ==
  IF elems = <<>> THEN <<dir, below>>
  ELSE LET e == Head(elems) IN
       IF e = "" \/ e = "." THEN Clean(dir, below, Tail(elems))
       ELSE IF e = ".."
       THEN IF below # <<>>
            THEN Clean(dir, SubSeq(below, 1, Len(below) - 1), Tail(elems))
            ELSE Clean(Parent(dir), <<>>, Tail(elems))
       ELSE Clean(dir, Append(below, e), Tail(elems))

\* the directory the elements but the last lead to from dir (NoDir when one
\* of them names no directory), and the last element
RECURSIVE Walk(_, _)
Walk(dir, elems) ==
  IF Len(elems) = 1 THEN <<dir, elems[1]>>
  ELSE Walk(IF dir = NoDir THEN NoDir ELSE Child(dir, elems[1]), Tail(elems))

\* filepath.Join(dir, name): the directory and the base name the joined and
\* cleaned path resolves to; a path that is a directory of the model
\* resolves to its name in the directory above it
Join(dir, name) ==
  LET c == Clean(dir, <<>>, Split(name))
  IN IF c[1] = NoDir THEN <<NoDir, name>>
     ELSE IF c[2] = <<>> THEN <<Parent(c[1]), DirName[c[1]]>>
     ELSE Walk(c[1], c[2])

\* a resolved path as the name of a file: directory, base name and extension
Key(r) ==
  IF HasSuffix(r[2], ".tmp")
  THEN <<r[1], SubSeq(r[2], 1, Len(r[2]) - 4), "tmp">>
  ELSE <<r[1], r[2], "final">>

\* the name is that of a directory
IsDir(k) == k[3] = "final" /\ Child(k[1], k[2]) # NoDir

\* os.OpenFile with O_EXCL|O_CREATE succeeds on k: its directory exists and
\* the name is free
Free(k) == k \in DOMAIN fs /\ fs[k] = 0 /\ ~IsDir(k)

\* --------------------------------------------------- sink.handleTransfer
\* convertBytesToInt16: two little-endian bytes as a signed 16-bit integer
convertBytesToInt16(b) ==
  LET n == b[1] + 256 * b[2]
  IN IF n >= 2^15 THEN n - 2^16 ELSE n

\* what a producer that follows the protocol sends after the ack: the length
\* of the name in two little-endian bytes, then the name
Framed(names) ==
  {[fnlenBytes |-> <<Len(n) % 256, Len(n) \div 256>>, filename |-> n] : n \in names}

\* tmpfile := filepath.Join(cachePlot.path, filename+".tmp");
\* dstfile := filepath.Join(cachePlot.path, filename), which with an empty
\* filename is the directory cachePlot.path itself
tmpfile(h) == Key(Join(cachePlot[h], filename[h] \o ".tmp"))
dstfile(h) == Key(Join(cachePlot[h], filename[h]))

\* conn.Write([]byte{1}): the ack
WriteAck(h) ==
  /\ Alive
  /\ pc[h] = "handleTransfer"
  /\ conn' = [conn EXCEPT ![h].acks = @ + 1]
  /\ pc' = [pc EXCEPT ![h] = "readFnlen"]
  /\ UNCHANGED <<mainVars, sinkVars, localVars>>

\* conn.Read(fnlenBytes): a read error returns false.  With fnlen < 0,
\* make([]byte, fnlen) panics and the deferred calls of handleTransfer and
\* of handleConnection run.
ReadFnlen(h, msgs) ==
  /\ Alive
  /\ pc[h] = "readFnlen"
  /\ \/ /\ pc' = [pc EXCEPT ![h] = "dConnClose"]
        /\ UNCHANGED <<fnlenBytes, err>>
     \/ \E m \in msgs :
          /\ fnlenBytes' = [fnlenBytes EXCEPT ![h] = m.fnlenBytes]
          /\ IF convertBytesToInt16(m.fnlenBytes) < 0
             THEN /\ err' = [err EXCEPT ![h] = "panic"]
                  /\ pc' = [pc EXCEPT ![h] = "dConnClose"]
             ELSE /\ pc' = [pc EXCEPT ![h] = "readFilename"]
                  /\ UNCHANGED err
  /\ UNCHANGED <<mainVars, sinkVars, conn, size, pg, plot, cachePlot,
                 filename, sent, dio, stat, tf, ok, locked, rivals, unsorted,
                 walk, ins>>

\* conn.Read(filenameBytes): of the bytes that follow the length, the first
\* fnlen; a read error returns false.  A read into an empty buffer returns
\* at once, without error.
ReadFilename(h, msgs) ==
  /\ Alive
  /\ pc[h] = "readFilename"
  /\ LET fnlen == convertBytesToInt16(fnlenBytes[h]) IN
     \/ /\ fnlen > 0
        /\ pc' = [pc EXCEPT ![h] = "dConnClose"]
        /\ UNCHANGED filename
     \/ \E m \in msgs :
          /\ m.fnlenBytes = fnlenBytes[h]
          /\ filename' = [filename EXCEPT ![h] = SubSeq(m.filename, 1, fnlen)]
          /\ pc' = [pc EXCEPT ![h] = "removeTmp"]
  /\ UNCHANGED <<mainVars, sinkVars, conn, size, pg, plot, cachePlot,
                 fnlenBytes, sent, dio, stat, tf, err, ok, locked, rivals,
                 unsorted, walk, ins>>

\* the deferred f.Close() of handleTransfer where directio.New failed
DeferFClose(h) ==
  /\ Alive
  /\ pc[h] = "dFClose"
  /\ Close(cacheIno(h))
  /\ pc' = [pc EXCEPT ![h] = "dConnClose"]
  /\ UNCHANGED <<mainVars, concurrency, sortMutex, transfers, sortedGroups,
                 sortedPlots, busy, paused, ptransfers, freeSpace, mutex,
                 timers, conn, localVars>>

\* the deferred conn.Close() of handleTransfer where it returns false or
\* panics.  (The deferred dio.Flush() and f.Close() before it, where they
\* were registered, find the file closed and do nothing.)
DeferConnClose(h) ==
  /\ Alive
  /\ pc[h] = "dConnClose"
  /\ conn' = closeConn(h)
  /\ pc' = [pc EXCEPT ![h] = "dCachePlotAdd"]
  /\ UNCHANGED <<mainVars, sinkVars, localVars>>

\* os.Remove(tmpfile)
RemoveTmp(h) ==
  /\ Alive
  /\ pc[h] = "removeTmp"
  /\ Remove(tmpfile(h))
  /\ pc' = [pc EXCEPT ![h] = "openTmp"]
  /\ UNCHANGED <<mainVars, concurrency, sortMutex, transfers, sortedGroups,
                 sortedPlots, busy, paused, ptransfers, freeSpace, mutex,
                 timers, conn, localVars>>

\* os.OpenFile(tmpfile, O_WRONLY|O_EXCL|O_CREATE|O_DIRECT): fails when the
\* name exists or its directory does not; then directio.New(f), which reads
\* the flags of f: where that fails, handleTransfer returns false
OpenTmp(h, faults) ==
  /\ Alive
  /\ pc[h] = "openTmp"
  /\ IF ~Free(tmpfile(h))
     THEN /\ pc' = [pc EXCEPT ![h] = "dConnClose"]
          /\ UNCHANGED <<fs, inode>>
     ELSE /\ Create(tmpfile(h), cacheIno(h), h)
          /\ \/ pc' = [pc EXCEPT ![h] = "copyIn"]
             \/ faults /\ pc' = [pc EXCEPT ![h] = "dFClose"]
  /\ UNCHANGED <<mainVars, concurrency, sortMutex, transfers, sortedGroups,
                 sortedPlots, busy, paused, ptransfers, freeSpace, mutex,
                 timers, conn, localVars>>

\* io.Copy(dio, conn), a byte at a time: the next byte of the producer goes
\* into the buffer of dio, and the buffer, once full, is written to f (where
\* the write fails, io.Copy returns its error and dio, keeping the error,
\* writes no more); the stream ends and io.Copy returns nil; or the read
\* fails and io.Copy returns its error
CopyIn(h, short) ==
  /\ Alive
  /\ pc[h] = "copyIn"
  /\ \/ /\ sent[h] < size[h]
        /\ sent' = [sent EXCEPT ![h] = @ + 1]
        /\ IF dio[h] + 1 < BufferSize
           THEN /\ dio' = [dio EXCEPT ![h] = @ + 1]
                /\ UNCHANGED <<inode, pc, err>>
           ELSE /\ inode' = Write(cacheIno(h), BufferSize)
                /\ dio' = [dio EXCEPT ![h] = 0]
                /\ IF BufferSize <= Avail(inode[cacheIno(h)].dir)
                   THEN UNCHANGED <<pc, err>>
                   ELSE /\ err' = [err EXCEPT ![h] = "conn"]
                        /\ pc' = [pc EXCEPT ![h] = "tmpErrFlush"]
     \/ /\ short \/ sent[h] = size[h]
        /\ pc' = [pc EXCEPT ![h] = "renameTmp"]
        /\ UNCHANGED <<inode, sent, dio, err>>
     \/ /\ err' = [err EXCEPT ![h] = "conn"]
        /\ pc' = [pc EXCEPT ![h] = "tmpErrFlush"]
        /\ UNCHANGED <<inode, sent, dio>>
  /\ UNCHANGED <<mainVars, concurrency, sortMutex, transfers, sortedGroups,
                 sortedPlots, busy, paused, ptransfers, freeSpace, mutex,
                 timers, fs, conn, size, pg, plot, cachePlot, fnlenBytes,
                 filename, stat, tf, ok, locked, rivals, unsorted, walk, ins>>

\* os.Rename(tmpfile, dstfile): fails when tmpfile is gone or dstfile is a
\* directory
RenameTmp(h) ==
  /\ Alive
  /\ pc[h] = "renameTmp"
  /\ IF fs[tmpfile(h)] = 0 \/ dstfile(h) \notin DOMAIN fs \/ IsDir(dstfile(h))
     THEN /\ pc' = [pc EXCEPT ![h] = "tmpErrClose"]
          /\ UNCHANGED <<fs, inode>>
     ELSE /\ Rename(tmpfile(h), dstfile(h))
          /\ pc' = [pc EXCEPT ![h] = "updateFreeSpaceTransfer"]
  /\ UNCHANGED <<mainVars, concurrency, sortMutex, transfers, sortedGroups,
                 sortedPlots, busy, paused, ptransfers, freeSpace, mutex,
                 timers, conn, localVars>>

\* dio.Flush() after the failed copy: the bytes in the buffer are written
\* to f, as far as there is room; its error is dropped
TmpErrFlush(h) ==
  /\ Alive
  /\ pc[h] = "tmpErrFlush"
  /\ inode' = Write(cacheIno(h), dio[h])
  /\ dio' = [dio EXCEPT ![h] = 0]
  /\ pc' = [pc EXCEPT ![h] = "tmpErrClose"]
  /\ UNCHANGED <<mainVars, concurrency, sortMutex, transfers, sortedGroups,
                 sortedPlots, busy, paused, ptransfers, freeSpace, mutex,
                 timers, fs, conn, size, pg, plot, cachePlot, fnlenBytes,
                 filename, sent, stat, tf, err, ok, locked, rivals, unsorted,
                 walk, ins>>

\* f.Close() after the failed copy or the failed rename
TmpErrClose(h) ==
  /\ Alive
  /\ pc[h] = "tmpErrClose"
  /\ Close(cacheIno(h))
  /\ pc' = [pc EXCEPT ![h] = "tmpErrRemove"]
  /\ UNCHANGED <<mainVars, concurrency, sortMutex, transfers, sortedGroups,
                 sortedPlots, busy, paused, ptransfers, freeSpace, mutex,
                 timers, conn, localVars>>

\* os.Remove(tmpfile) after the failed copy or rename: whatever file has
\* the name now
TmpErrRemove(h) ==
  /\ Alive
  /\ pc[h] = "tmpErrRemove"
  /\ Remove(tmpfile(h))
  /\ pc' = [pc EXCEPT ![h] = "pauseTransfer"]
  /\ UNCHANGED <<mainVars, concurrency, sortMutex, transfers, sortedGroups,
                 sortedPlots, busy, paused, ptransfers, freeSpace, mutex,
                 timers, conn, localVars>>

\* plotPath.pause on the destination, from handleTransfer (which then
\* returns false) and from handleMove
pause(h) ==
  /\ Alive
  /\ pc[h] \in {"pauseTransfer", "pauseMove"}
  /\ paused' = [paused EXCEPT ![plot[h]] = TRUE]
  /\ timers' = addTimer(timers, plot[h])
  /\ pc' = [pc EXCEPT ![h] = IF pc[h] = "pauseTransfer" THEN "dConnClose"
                                                         ELSE "closeTf"]
  /\ UNCHANGED <<mainVars, concurrency, sortMutex, transfers, sortedGroups,
                 sortedPlots, busy, ptransfers, freeSpace, mutex, fs, inode,
                 conn, localVars>>

\* plotPath.updateFreeSpace, unix.Statfs(p.path, &stat), at the end of
\* handleTransfer (cachePlot), and in handleConnection at 382 (plot) and at
\* 383 (cachePlot)
Statfs(h, faults) ==
  /\ Alive
  /\ pc[h] \in {"updateFreeSpaceTransfer", "updateFreeSpacePlot",
                "updateFreeSpaceCache"}
  /\ LET p == IF pc[h] = "updateFreeSpacePlot" THEN plot[h] ELSE cachePlot[h]
     IN \E v \in {updateFreeSpace(inode, p)} \cup (IF faults THEN {0} ELSE {}) :
          stat' = [stat EXCEPT ![h] = v]
  /\ pc' = [pc EXCEPT ![h] =
        CASE pc[h] = "updateFreeSpaceTransfer" -> "storeFreeSpaceTransfer"
          [] pc[h] = "updateFreeSpacePlot" -> "storeFreeSpacePlot"
          [] pc[h] = "updateFreeSpaceCache" -> "storeFreeSpaceCache"]
  /\ UNCHANGED <<mainVars, sinkVars, conn, size, pg, plot, cachePlot,
                 fnlenBytes, filename, sent, dio, tf, err, ok, locked, rivals,
                 unsorted, walk, ins>>

\* cachePlot.updateFreeSpace() at the end of handleTransfer:
\* p.freeSpace = stat.Bavail * uint64(stat.Bsize)
UpdateFreeSpaceTransfer(h) ==
  /\ Alive
  /\ pc[h] = "storeFreeSpaceTransfer"
  /\ freeSpace' = [freeSpace EXCEPT ![cachePlot[h]] = stat[h]]
  /\ stat' = [stat EXCEPT ![h] = 0]
  /\ pc' = [pc EXCEPT ![h] = "flushTmp"]
  /\ UNCHANGED <<mainVars, concurrency, sortMutex, transfers, sortedGroups,
                 sortedPlots, busy, paused, ptransfers, mutex, timers, fs,
                 inode, conn, size, pg, plot, cachePlot, fnlenBytes, filename,
                 sent, dio, tf, err, ok, locked, rivals, unsorted, walk, ins>>

\* handleTransfer returns true: the deferred dio.Flush() writes the bytes
\* in the buffer to f, as far as there is room; its error is dropped
FlushTmp(h) ==
  /\ Alive
  /\ pc[h] = "flushTmp"
  /\ inode' = Write(cacheIno(h), dio[h])
  /\ dio' = [dio EXCEPT ![h] = 0]
  /\ pc' = [pc EXCEPT ![h] = "closeTmp"]
  /\ UNCHANGED <<mainVars, concurrency, sortMutex, transfers, sortedGroups,
                 sortedPlots, busy, paused, ptransfers, freeSpace, mutex,
                 timers, fs, conn, size, pg, plot, cachePlot, fnlenBytes,
                 filename, sent, stat, tf, err, ok, locked, rivals, unsorted,
                 walk, ins>>

\* handleTransfer returns true: the deferred f.Close() and conn.Close()
CloseTmp(h) ==
  /\ Alive
  /\ pc[h] = "closeTmp"
  /\ Close(cacheIno(h))
  /\ conn' = closeConn(h)
  /\ pc' = [pc EXCEPT ![h] = "handleMove"]
  /\ UNCHANGED <<mainVars, concurrency, sortMutex, transfers, sortedGroups,
                 sortedPlots, busy, paused, ptransfers, freeSpace, mutex,
                 timers, localVars>>

\* ------------------------------------------------------- sink.handleMove
\* dstfile := filepath.Join(plot.path, filename); tmpdstfile := dstfile + ".tmp"
dstplot(h) == Key(Join(plot[h], filename[h]))
tmpdstfile(h) ==
  LET r == Join(plot[h], filename[h]) IN Key(<<r[1], r[2] \o ".tmp">>)

\* tf, err := os.Open(tmpfile): the cache file under its final name
MoveOpen(h) ==
  /\ Alive
  /\ pc[h] = "handleMove"
  /\ IF fs[dstfile(h)] = 0
     THEN /\ pc' = [pc EXCEPT ![h] = "updateFreeSpacePlot"]
          /\ UNCHANGED <<tf, inode>>
     ELSE /\ tf' = [tf EXCEPT ![h] = fs[dstfile(h)]]
          /\ inode' = [inode EXCEPT ![fs[dstfile(h)]].open = @ + 1]
          /\ pc' = [pc EXCEPT ![h] = "moveCreate"]
  /\ UNCHANGED <<mainVars, concurrency, sortMutex, transfers, sortedGroups,
                 sortedPlots, busy, paused, ptransfers, freeSpace, mutex,
                 timers, fs, conn, size, pg, plot, cachePlot, fnlenBytes,
                 filename, sent, dio, stat, err, ok, locked, rivals, unsorted,
                 walk, ins>>

\* os.OpenFile(tmpdstfile, O_WRONLY|O_EXCL|O_CREATE|O_DIRECT): fails when
\* the name exists, and handleMove returns false; then directio.New(f):
\* where that fails, handleMove returns false and leaves f open
MoveCreate(h, faults) ==
  /\ Alive
  /\ pc[h] = "moveCreate"
  /\ IF ~Free(tmpdstfile(h))
     THEN /\ pc' = [pc EXCEPT ![h] = "closeTf"]
          /\ UNCHANGED <<fs, inode>>
     ELSE /\ Create(tmpdstfile(h), destIno(h), inode[tf[h]].src)
          /\ \/ pc' = [pc EXCEPT ![h] = "moveCopy"]
             \/ faults /\ pc' = [pc EXCEPT ![h] = "closeTf"]
  /\ UNCHANGED <<mainVars, concurrency, sortMutex, transfers, sortedGroups,
                 sortedPlots, busy, paused, ptransfers, freeSpace, mutex,
                 timers, conn, localVars>>

\* io.Copy(dio, tf), a byte at a time: the next byte read through tf goes
\* into the buffer of dio, and the buffer, once full, is written to f, on
\* the file system f was created on (where the write fails, io.Copy returns
\* its error); tf is at its end and io.Copy returns nil; or a read fails
\* and io.Copy returns its error
MoveCopy(h) ==
  /\ Alive
  /\ pc[h] = "moveCopy"
  /\ \/ /\ inode[destIno(h)].len + dio[h] < inode[tf[h]].len
        /\ IF dio[h] + 1 < BufferSize
           THEN /\ dio' = [dio EXCEPT ![h] = @ + 1]
                /\ UNCHANGED <<inode, pc, err>>
           ELSE /\ inode' = Write(destIno(h), BufferSize)
                /\ dio' = [dio EXCEPT ![h] = 0]
                /\ IF BufferSize <= Avail(inode[destIno(h)].dir)
                   THEN UNCHANGED <<pc, err>>
                   ELSE /\ err' = [err EXCEPT ![h] = "tf"]
                        /\ pc' = [pc EXCEPT ![h] = "moveErrFlush"]
     \/ /\ inode[destIno(h)].len + dio[h] >= inode[tf[h]].len
        /\ pc' = [pc EXCEPT ![h] = "moveFlush"]
        /\ UNCHANGED <<inode, dio, err>>
     \/ /\ pc' = [pc EXCEPT ![h] = "moveErrFlush"]
        /\ err' = [err EXCEPT ![h] = "tf"]
        /\ UNCHANGED <<inode, dio>>
  /\ UNCHANGED <<mainVars, concurrency, sortMutex, transfers, sortedGroups,
                 sortedPlots, busy, paused, ptransfers, freeSpace, mutex,
                 timers, fs, conn, size, pg, plot, cachePlot, fnlenBytes,
                 filename, sent, stat, tf, ok, locked, rivals, unsorted, walk,
                 ins>>

\* dio.Flush(), after the failed copy (504) and before the rename (512):
\* the bytes in the buffer are written to f, as far as there is room; its
\* error is dropped
MoveFlush(h) ==
  /\ Alive
  /\ pc[h] \in {"moveErrFlush", "moveFlush"}
  /\ inode' = Write(destIno(h), dio[h])
  /\ dio' = [dio EXCEPT ![h] = 0]
  /\ pc' = [pc EXCEPT ![h] = IF pc[h] = "moveFlush" THEN "moveClose"
                                                     ELSE "moveErrClose"]
  /\ UNCHANGED <<mainVars, concurrency, sortMutex, transfers, sortedGroups,
                 sortedPlots, busy, paused, ptransfers, freeSpace, mutex,
                 timers, fs, conn, size, pg, plot, cachePlot, fnlenBytes,
                 filename, sent, stat, tf, err, ok, locked, rivals, unsorted,
                 walk, ins>>

\* f.Close() after the failed copy
MoveErrClose(h) ==
  /\ Alive
  /\ pc[h] = "moveErrClose"
  /\ Close(destIno(h))
  /\ pc' = [pc EXCEPT ![h] = "moveErrRemove"]
  /\ UNCHANGED <<mainVars, concurrency, sortMutex, transfers, sortedGroups,
                 sortedPlots, busy, paused, ptransfers, freeSpace, mutex,
                 timers, conn, localVars>>

\* os.Remove(tmpdstfile) after the failed copy or rename
MoveErrRemove(h) ==
  /\ Alive
  /\ pc[h] = "moveErrRemove"
  /\ Remove(tmpdstfile(h))
  /\ pc' = [pc EXCEPT ![h] = "pauseMove"]
  /\ UNCHANGED <<mainVars, concurrency, sortMutex, transfers, sortedGroups,
                 sortedPlots, busy, paused, ptransfers, freeSpace, mutex,
                 timers, conn, localVars>>

\* f.Close() before the rename
MoveClose(h) ==
  /\ Alive
  /\ pc[h] = "moveClose"
  /\ Close(destIno(h))
  /\ pc' = [pc EXCEPT ![h] = "moveRename"]
  /\ UNCHANGED <<mainVars, concurrency, sortMutex, transfers, sortedGroups,
                 sortedPlots, busy, paused, ptransfers, freeSpace, mutex,
                 timers, conn, localVars>>

\* os.Rename(tmpdstfile, dstfile), then return true; where the rename fails
\* (the name is gone, or the file system reports an error), os.Remove,
\* plot.pause() and return false
MoveRename(h, faults) ==
  /\ Alive
  /\ pc[h] = "moveRename"
  /\ \/ /\ fs[tmpdstfile(h)] # 0
        /\ Rename(tmpdstfile(h), dstplot(h))
        /\ ok' = [ok EXCEPT ![h] = TRUE]
        /\ pc' = [pc EXCEPT ![h] = "closeTf"]
     \/ /\ fs[tmpdstfile(h)] = 0 \/ faults
        /\ pc' = [pc EXCEPT ![h] = "moveErrRemove"]
        /\ UNCHANGED <<fs, inode, ok>>
  /\ UNCHANGED <<mainVars, concurrency, sortMutex, transfers, sortedGroups,
                 sortedPlots, busy, paused, ptransfers, freeSpace, mutex,
                 timers, conn, size, pg, plot, cachePlot, fnlenBytes,
                 filename, sent, dio, stat, tf, err, locked, rivals, unsorted,
                 walk, ins>>

\* handleMove returns after os.Open succeeded: the deferred tf.Close()
CloseTf(h) ==
  /\ Alive
  /\ pc[h] = "closeTf"
  /\ Close(tf[h])
  /\ pc' = [pc EXCEPT ![h] = IF ok[h] THEN "removeCache"
                                      ELSE "updateFreeSpacePlot"]
  /\ UNCHANGED <<mainVars, concurrency, sortMutex, transfers, sortedGroups,
                 sortedPlots, busy, paused, ptransfers, freeSpace, mutex,
                 timers, conn, localVars>>

\* if ok { os.Remove(tmpfile) }: the name handleTransfer returned
RemoveCache(h) ==
  /\ Alive
  /\ pc[h] = "removeCache"
  /\ Remove(dstfile(h))
  /\ pc' = [pc EXCEPT ![h] = "updateFreeSpacePlot"]
  /\ UNCHANGED <<mainVars, concurrency, sortMutex, transfers, sortedGroups,
                 sortedPlots, busy, paused, ptransfers, freeSpace, mutex,
                 timers, conn, localVars>>

\* plot.updateFreeSpace(), line 382: p.freeSpace = ...
UpdateFreeSpacePlot(h) ==
  /\ Alive
  /\ pc[h] = "storeFreeSpacePlot"
  /\ freeSpace' = [freeSpace EXCEPT ![plot[h]] = stat[h]]
  /\ stat' = [stat EXCEPT ![h] = 0]
  /\ pc' = [pc EXCEPT ![h] = "updateFreeSpaceCache"]
  /\ UNCHANGED <<mainVars, concurrency, sortMutex, transfers, sortedGroups,
                 sortedPlots, busy, paused, ptransfers, mutex, timers, fs,
                 inode, conn, size, pg, plot, cachePlot, fnlenBytes, filename,
                 sent, dio, tf, err, ok, locked, rivals, unsorted, walk, ins>>

\* cachePlot.updateFreeSpace(), line 383: p.freeSpace = ...
UpdateFreeSpaceCache(h) ==
  /\ Alive
  /\ pc[h] = "storeFreeSpaceCache"
  /\ freeSpace' = [freeSpace EXCEPT ![cachePlot[h]] = stat[h]]
  /\ stat' = [stat EXCEPT ![h] = 0]
  /\ pc' = [pc EXCEPT ![h] = "sortPathsLock"]
  /\ UNCHANGED <<mainVars, concurrency, sortMutex, transfers, sortedGroups,
                 sortedPlots, busy, paused, ptransfers, mutex, timers, fs,
                 inode, conn, size, pg, plot, cachePlot, fnlenBytes, filename,
                 sent, dio, tf, err, ok, locked, rivals, unsorted, walk, ins>>

\* pg.sortPaths(), line 384: pg.sortMutex.Lock(), as far as the writers'
\* mutex
SortPathsLock(h) ==
  /\ Alive
  /\ pc[h] = "sortPathsLock"
  /\ Lock(pg[h], h)
  /\ pc' = [pc EXCEPT ![h] = "sortPaths"]
  /\ UNCHANGED <<mainVars, concurrency, transfers, sortedGroups, sortedPlots,
                 busy, paused, ptransfers, freeSpace, mutex, timers, fs, inode,
                 conn, localVars>>

\* mutant of SortPaths: the group is not sorted again after the refresh
SortPathsSkipped(h) ==
  /\ Alive
  /\ pc[h] = "sortPaths"
  /\ Locked(pg[h], h)
  /\ Unlock(pg[h])
  /\ pc' = [pc EXCEPT ![h] = "dCachePlotAdd"]
  /\ UNCHANGED <<mainVars, concurrency, transfers, sortedGroups, sortedPlots,
                 busy, paused, ptransfers, freeSpace, mutex, timers, fs, inode,
                 conn, localVars>>

\* pg.sortPaths(), the lock taken once the readers have left: one call of
\* cmp, which reads the freeSpace of two paths, a plain field another
\* handler may store between two calls (382); after the last one the
\* deferred pg.sortMutex.Unlock()
SortPaths(h) ==
  /\ Alive
  /\ pc[h] = "sortPaths"
  /\ Locked(pg[h], h)
  /\ LET old == sortedPlots[pg[h]]
         key == [p \in Paths |-> 0 - freeSpace[p]]
         seq == IF InsDone(old, ins[h]) THEN old
                ELSE InsSeq(old, ins[h], key)
         s == IF InsDone(old, ins[h]) THEN ins[h]
              ELSE InsNext(old, ins[h], key)
     IN /\ sortedPlots' = [sortedPlots EXCEPT ![pg[h]] = seq]
        /\ IF InsDone(seq, s)
           THEN /\ Unlock(pg[h])
                /\ ins' = [ins EXCEPT ![h] = InsStart]
                /\ pc' = [pc EXCEPT ![h] = "dCachePlotAdd"]
           ELSE /\ ins' = [ins EXCEPT ![h] = s]
                /\ UNCHANGED <<sortMutex, pc>>
  /\ UNCHANGED <<mainVars, concurrency, transfers, sortedGroups, busy, paused,
                 ptransfers, freeSpace, mutex, timers, fs, inode, conn, size,
                 pg, plot, cachePlot, fnlenBytes, filename, sent, dio, stat, tf,
                 err, ok, locked, rivals, unsorted, walk>>

\* ------------------------------------- the deferred calls, last one first
\* defer cachePlot.transfers.Add(-1)
DeferCachePlotAdd(h) ==
  /\ Alive
  /\ pc[h] = "dCachePlotAdd"
  /\ ptransfers' = [ptransfers EXCEPT ![cachePlot[h]] = @ - 1]
  /\ pc' = [pc EXCEPT ![h] = "dSortCachePathsLock"]
  /\ UNCHANGED <<mainVars, concurrency, sortMutex, transfers, sortedGroups,
                 sortedPlots, busy, paused, freeSpace, mutex, timers, fs,
                 inode, conn, localVars>>

\* mutant of DeferPgAdd: the decrement is left out
DeferPgAddSkipped(h) ==
  /\ Alive
  /\ pc[h] = "dPgAdd"
  /\ pc' = [pc EXCEPT ![h] = "dSortGroupsLock"]
  /\ UNCHANGED <<mainVars, sinkVars, conn, localVars>>

\* defer pg.transfers.Add(-1)
DeferPgAdd(h) ==
  /\ Alive
  /\ pc[h] = "dPgAdd"
  /\ transfers' = [transfers EXCEPT ![pg[h]] = @ - 1]
  /\ pc' = [pc EXCEPT ![h] = "dSortGroupsLock"]
  /\ UNCHANGED <<mainVars, concurrency, sortMutex, sortedGroups, sortedPlots,
                 busy, paused, ptransfers, freeSpace, mutex, timers, fs,
                 inode, conn, localVars>>

\* defer s.cacheGroup.transfers.Add(-1)
DeferCacheGroupAdd(h) ==
  /\ Alive
  /\ pc[h] = "dCacheGroupAdd"
  /\ transfers' = [transfers EXCEPT ![CacheGroup] = @ - 1]
  /\ pc' = [pc EXCEPT ![h] = "dBusyStore"]
  /\ UNCHANGED <<mainVars, concurrency, sortMutex, sortedGroups, sortedPlots,
                 busy, paused, ptransfers, freeSpace, mutex, timers, fs,
                 inode, conn, localVars>>

\* mutant of DeferBusyStore: the flag is not reset on the way out
DeferBusyStoreKeepsBusy(h) ==
  /\ Alive
  /\ pc[h] = "dBusyStore"
  /\ pc' = [pc EXCEPT ![h] = "dUnlock"]
  /\ UNCHANGED <<mainVars, sinkVars, conn, localVars>>

\* defer plot.busy.Store(false)
DeferBusyStore(h) ==
  /\ Alive
  /\ pc[h] = "dBusyStore"
  /\ busy' = [busy EXCEPT ![plot[h]] = FALSE]
  /\ pc' = [pc EXCEPT ![h] = "dUnlock"]
  /\ UNCHANGED <<mainVars, concurrency, sortMutex, transfers, sortedGroups,
                 sortedPlots, paused, ptransfers, freeSpace, mutex, timers,
                 fs, inode, conn, localVars>>

\* defer plot.mutex.Unlock()
DeferUnlock(h) ==
  /\ Alive
  /\ pc[h] = "dUnlock"
  /\ mutex' = [mutex EXCEPT ![plot[h]] = 0]
  /\ pc' = [pc EXCEPT ![h] = "dWgDone"]
  /\ UNCHANGED <<mainVars, concurrency, sortMutex, transfers, sortedGroups,
                 sortedPlots, busy, paused, ptransfers, freeSpace, timers, fs,
                 inode, conn, localVars>>

\* the goroutine of h ends: the handler has returned (its locals are gone),
\* or its panic has run the last deferred call
Ended(h, panic) ==
  /\ pc' = [pc EXCEPT ![h] = IF panic THEN "panicked" ELSE "done"]
  /\ size' = [size EXCEPT ![h] = 0]
  /\ pg' = [pg EXCEPT ![h] = Nil]
  /\ cachePlot' = [cachePlot EXCEPT ![h] = Nil]
  /\ fnlenBytes' = [fnlenBytes EXCEPT ![h] = <<0, 0>>]
  /\ filename' = [filename EXCEPT ![h] = ""]
  /\ sent' = [sent EXCEPT ![h] = 0]
  /\ dio' = [dio EXCEPT ![h] = 0]
  /\ stat' = [stat EXCEPT ![h] = 0]
  /\ tf' = [tf EXCEPT ![h] = 0]
  /\ err' = [err EXCEPT ![h] = IF panic THEN "panic" ELSE Nil]
  /\ ok' = [ok EXCEPT ![h] = FALSE]

\* defer s.wg.Done(), that is Add(-1): the counter goes down by one.  Above
\* zero, or with no waiter, Done returns; else it goes on to release the
\* waiter.
DeferWgDone(h) ==
  /\ Alive
  /\ pc[h] = "dWgDone"
  /\ wg' = wg - 1
  /\ IF wg - 1 > 0 \/ waiters = 0
     THEN Ended(h, err[h] = "panic")
     ELSE /\ pc' = [pc EXCEPT ![h] = "dWgLoad"]
          /\ UNCHANGED <<size, pg, cachePlot, fnlenBytes, filename, sent, dio,
                         stat, tf, err, ok>>
  /\ UNCHANGED <<proc, listenerClosed, waiters, sinkVars, conn, plot, locked,
                 rivals, unsorted, walk, ins>>

\* s.wg.Done() that brought the counter to zero with a waiter: it loads the
\* state again and panics if it has changed ("WaitGroup misuse: Add called
\* concurrently with Wait")
DeferWgLoad(h) ==
  /\ Alive
  /\ pc[h] = "dWgLoad"
  /\ IF wg = 0 /\ waiters = 1
     THEN /\ pc' = [pc EXCEPT ![h] = "dWgStore"]
          /\ UNCHANGED <<size, pg, cachePlot, fnlenBytes, filename, sent, dio,
                         stat, tf, err, ok>>
     ELSE Ended(h, TRUE)
  /\ UNCHANGED <<mainVars, sinkVars, conn, plot, locked, rivals, unsorted,
                 walk, ins>>

\* s.wg.Done(): wg.state.Store(0), counter and waiters
DeferWgStore(h) ==
  /\ Alive
  /\ pc[h] = "dWgStore"
  /\ wg' = 0
  /\ waiters' = 0
  /\ pc' = [pc EXCEPT ![h] = "dWgRelease"]
  /\ UNCHANGED <<proc, listenerClosed, sinkVars, conn, localVars>>

\* s.wg.Done(): runtime_Semrelease, which wakes main, and Done returns
DeferWgRelease(h) ==
  /\ Alive
  /\ pc[h] = "dWgRelease"
  /\ proc' = "released"
  /\ Ended(h, err[h] = "panic")
  /\ UNCHANGED <<listenerClosed, wg, waiters, sinkVars, conn, plot, locked,
                 rivals, unsorted, walk, ins>>

\* ---------------------------------------------------------------- timers
\* time passes: the 5 minutes of the oldest pending timer of p are over
Elapse(p) ==
  /\ Alive
  /\ timers[p].pending > 0
  /\ timers' = [timers EXCEPT ![p].pending = @ - 1, ![p].due = @ + 1]
  /\ UNCHANGED <<mainVars, concurrency, sortMutex, transfers, sortedGroups,
                 sortedPlots, busy, paused, ptransfers, freeSpace, mutex, fs,
                 inode, conn, pc, localVars>>

\* plotPath.pause: the function time.AfterFunc runs once the 5 minutes have
\* passed, p.paused.Store(false)
TimerFire(p) ==
  /\ Alive
  /\ timers[p].due > 0
  /\ paused' = [paused EXCEPT ![p] = FALSE]
  /\ timers' = [timers EXCEPT ![p].due = @ - 1]
  /\ UNCHANGED <<mainVars, concurrency, sortMutex, transfers, sortedGroups,
                 sortedPlots, busy, ptransfers, freeSpace, mutex, fs, inode,
                 conn, pc, localVars>>

\* ------------------------------------------------------------------ Next
\* one step of the handler of connection h, the producer's inputs drawn
\* from sizes and msgs; short: the producer may end the stream early;
\* faults: a call may fail on a healthy file system (unix.Statfs,
\* directio.New, the os.Rename of handleMove)
Handler(h, sizes, msgs, short, faults) ==
  \/ WgAdd(h) \/ ReadSize(h, sizes)
  \/ PickRLock(h) \/ PgRLock(h) \/ PickPlot(h) \/ PickRUnlock(h)
  \/ NilClose(h) \/ TryLock(h) \/ BusyStore(h)
  \/ CacheGroupAdd(h) \/ PgAdd(h) \/ SortGroupsLock(h) \/ SortGroups(h)
  \/ PickCacheRLock(h) \/ PickCache(h) \/ CacheNilClose(h)
  \/ CachePlotAdd(h) \/ SortCachePathsLock(h) \/ SortCachePaths(h)
  \/ WriteAck(h)
  \/ ReadFnlen(h, msgs) \/ ReadFilename(h, msgs) \/ DeferConnClose(h)
  \/ RemoveTmp(h) \/ OpenTmp(h, faults) \/ CopyIn(h, short) \/ RenameTmp(h)
  \/ TmpErrFlush(h) \/ TmpErrClose(h) \/ TmpErrRemove(h)
  \/ pause(h) \/ Statfs(h, faults) \/ UpdateFreeSpaceTransfer(h)
  \/ FlushTmp(h) \/ CloseTmp(h)
  \/ MoveOpen(h) \/ MoveCreate(h, faults) \/ MoveCopy(h) \/ MoveFlush(h)
  \/ MoveErrClose(h) \/ MoveErrRemove(h) \/ MoveClose(h)
  \/ MoveRename(h, faults) \/ CloseTf(h)
  \/ RemoveCache(h) \/ UpdateFreeSpacePlot(h)
  \/ UpdateFreeSpaceCache(h) \/ SortPathsLock(h) \/ SortPaths(h)
  \/ DeferCachePlotAdd(h)
  \/ DeferPgAdd(h) \/ DeferCacheGroupAdd(h) \/ DeferBusyStore(h)
  \/ DeferUnlock(h) \/ DeferWgDone(h)

\* the timers of the paused paths
Timers ==
  \/ \E p \in DestPaths : Elapse(p)
  \/ \E p \in DestPaths : TimerFire(p)

\* placement and concurrency: plots of every size, one file name, whole
\* payloads, no shutdown signal, in a run shorter than the 5 minutes of a
\* pause (no timer runs out)
Next ==
  \/ \E h \in Conns : Accept(h)
  \/ \E h \in Conns : Handler(h, Sizes, Framed({"p01"}), FALSE, FALSE)
  \/ \E h \in Conns : Crash(h)

Spec == Init /\ [][Next]_vars

\* the sizes of the specifications below: the first connection declares a
\* plot of 1 byte, the others one of the largest size
Mixed(h) == IF h = 1 THEN {1} ELSE {MaxSize}

\* pauses: one file name, whole payloads, with the timers of the pauses
NextPause ==
  \/ \E h \in Conns : Accept(h)
  \/ \E h \in Conns : Handler(h, Mixed(h), Framed({"p01"}), FALSE, FALSE)
  \/ \E h \in Conns : Crash(h)
  \/ Timers

SpecPause == Init /\ [][NextPause]_vars

\* The specifications below are again of runs shorter than the 5 minutes
\* of a pause.

\* shutdown: plots of the largest size, with the signal goroutine and
\* main's exit
NextShutdown ==
  \/ \E h \in Conns : Accept(h)
  \/ Signal
  \/ AcceptError
  \/ Wait
  \/ WaitReturn
  \/ Exit
  \/ CrashMain
  \/ \E h \in Conns : Handler(h, {MaxSize}, Framed({"p01"}), FALSE, FALSE)
  \/ \E h \in Conns : DeferWgLoad(h)
  \/ \E h \in Conns : DeferWgStore(h)
  \/ \E h \in Conns : DeferWgRelease(h)
  \/ \E h \in Conns : Crash(h)

SpecShutdown == Init /\ [][NextShutdown]_vars

\* files: plots under every file name
NextFiles ==
  \/ \E h \in Conns : Accept(h)
  \/ \E h \in Conns : Handler(h, Mixed(h), Framed(Names), FALSE, FALSE)
  \/ \E h \in Conns : Crash(h)

SpecFiles == Init /\ [][NextFiles]_vars

\* short payloads: the producer may close the connection before it has
\* sent the declared number of bytes
NextShort ==
  \/ \E h \in Conns : Accept(h)
  \/ \E h \in Conns : Handler(h, Mixed(h), Framed({"p01"}), TRUE, FALSE)
  \/ \E h \in Conns : Crash(h)

SpecShort == Init /\ [][NextShort]_vars

\* what a producer can send in place of a framed plot name: a length of 0,
\* the length -1, a name that climbs out of the directory, a name in a
\* subdirectory there is, a name in a subdirectory there is not
Malformed ==
  { [fnlenBytes |-> <<0, 0>>, filename |-> ""],
    [fnlenBytes |-> <<255, 255>>, filename |-> ""],
    [fnlenBytes |-> <<6, 0>>, filename |-> "../p01"],
    [fnlenBytes |-> <<5, 0>>, filename |-> "./p01"],
    [fnlenBytes |-> <<5, 0>>, filename |-> "x/p01"] }

\* the wire: names that are not plot names
NextWire ==
  \/ \E h \in Conns : Accept(h)
  \/ \E h \in Conns : Handler(h, Mixed(h), Malformed, FALSE, FALSE)
  \/ \E h \in Conns : Crash(h)

SpecWire == Init /\ [][NextWire]_vars

\* failing calls: one file name
NextFaults ==
  \/ \E h \in Conns : Accept(h)
  \/ \E h \in Conns : Handler(h, Mixed(h), Framed({"p01"}), FALSE, TRUE)
  \/ \E h \in Conns : DeferFClose(h)
  \/ \E h \in Conns : Crash(h)

SpecFaults == Init /\ [][NextFaults]_vars

\* the picks of the one destination group of the second config.yaml, its
\* concurrency above 1: plots of every size, one file name
NextPick ==
  \/ \E h \in Conns : Accept(h)
  \/ \E h \in Conns : Handler(h, Sizes, Framed({"p01"}), FALSE, FALSE)
  \/ \E h \in Conns : Crash(h)

SpecPick == InitWide /\ [][NextPick]_vars

\* progress: plots of the largest size, one file name.  The scheduler runs
\* every goroutine that can run, and the network and file operations of
\* the handlers return: a handler whose next step is possible takes it.
\* Nothing makes a producer connect.
HandlerFair(h) ==
  \/ Handler(h, {MaxSize}, Framed({"p01"}), FALSE, FALSE)
  \/ Crash(h)

NextFair ==
  \/ \E h \in Conns : Accept(h)
  \/ \E h \in Conns : HandlerFair(h)

SpecFair ==
  Init /\ [][NextFair]_vars /\ \A h \in Conns : WF_vars(HandlerFair(h))

\* ----------------------------------------------------------------- claims
\* the handler of h holds the mutex of plot[h]: from the successful TryLock
\* to the deferred Unlock
Holding(h) ==
  pc[h] \notin {"idle", "spawned", "readSize", "pickRLock", "pgRLock",
                "pickPlot", "pickRUnlock", "nilClose", "TryLock", "dWgDone", "dWgLoad", "dWgStore", "dWgRelease",
                "done", "panicked"}
\* the handler of h is in the receive-plus-move pipeline
InPipeline(h) ==
  pc[h] \in {"handleTransfer", "readFnlen", "readFilename", "removeTmp",
             "openTmp", "copyIn", "renameTmp", "tmpErrFlush", "tmpErrClose",
             "tmpErrRemove", "pauseTransfer", "updateFreeSpaceTransfer",
             "storeFreeSpaceTransfer", "flushTmp", "closeTmp", "dFClose",
             "dConnClose", "handleMove", "moveCreate", "moveCopy",
             "moveErrFlush", "moveErrClose", "moveErrRemove", "moveFlush",
             "moveClose", "moveRename", "pauseMove", "closeTf", "removeCache",
             "updateFreeSpacePlot", "storeFreeSpacePlot",
             "updateFreeSpaceCache", "storeFreeSpaceCache", "sortPathsLock",
             "sortPaths"}
\* every accepted handler has returned
Quiescent == \A h \in Conns : pc[h] \in {"idle", "done"}

\* C1: a handler that won the TryLock holds the mutex of its destination path
\* until its deferred Unlock, through the whole receive and move, and no two
\* handlers are in the receive-plus-move pipeline for the same path.
C1_OneHandlerPerPath ==
  /\ \A h \in Conns : Holding(h) => mutex[plot[h]] = h
  /\ \A h, g \in Conns :
       (h # g /\ InPipeline(h) /\ InPipeline(g)) => plot[h] # plot[g]

\* C1 witness: one handler is in the pipeline of a path while another, which
\* had picked the same path, has lost the TryLock.
C1_Witness ==
  \E h, g \in Conns :
    /\ h # g /\ InPipeline(h) /\ plot[g] = plot[h]
    /\ pc[g] = "dWgDone" /\ ~locked[g]

\* C2: in every destination group the number of busy paths is at most the
\* group's concurrency.
C2_BusyWithinConcurrency ==
  \A g \in DestGroups :
    Cardinality({i \in 1..Len(GroupPaths[g]) : busy[GroupPaths[g][i]]})
      <= concurrency[g]

\* C3: a handler whose pick_destination returned nothing closes the
\* connection without an ack, changing no busy or paused flag and no
\* transfers counter, and then returns normally: it releases the outstanding
\* counter and has returned, the process staying up for later connections.
C3_NoPlacementReturns ==
  /\ [][\A h \in Conns :
          (pc[h] = "nilClose" /\ pc'[h] # pc[h])
          => /\ conn'[h] = [state |-> "closed", acks |-> 0]
             /\ busy' = busy /\ paused' = paused
             /\ transfers' = transfers /\ ptransfers' = ptransfers
             /\ pc'[h] = "dWgDone"]_vars
  /\ [][\A h \in Conns :
          (pc[h] = "dWgDone" /\ pc'[h] # pc[h] /\ plot[h] = Nil)
          => wg' = wg - 1 /\ pc'[h] = "done"]_vars

\* C4: with a cache group of concurrency 1, a connection that arrives alone
\* (no other handler in flight) and has acquired a destination is not turned
\* away by the cache pick.
C4_LoneArrivalAdmitted ==
  \A h \in Conns :
    (/\ concurrency[CacheGroup] = 1
     /\ \A g \in Conns : g # h => pc[g] \in {"idle", "done"}
     /\ locked[h])
    => ~(pc[h] = "dPgAdd" /\ cachePlot[h] = Nil)

\* C5: the transfers counter of every group and of every path is never
\* negative, and is 0 once every handler has returned.
C5_TransfersBalanced ==
  /\ \A g \in Groups : transfers[g] >= 0
  /\ \A p \in Paths : ptransfers[p] >= 0
  /\ Quiescent => /\ \A g \in Groups : transfers[g] = 0
                  /\ \A p \in Paths : ptransfers[p] = 0

\* C5 witness: every connection was accepted and its handler has returned,
\* one after a transfer that got the ack, one without having locked a path.
C5_Witness ==
  /\ \A h \in Conns : pc[h] = "done"
  /\ \E h \in Conns : conn[h].acks = 1
  /\ \E h \in Conns : ~locked[h]

\* C6 as stated: of two handlers that held the same pick before either
\* locked the path, exactly one acquires it.
C6_ExactlyOneAcquires ==
  \A h \in Conns : \A g \in rivals[h] :
    (/\ pc[h] \notin {"pickRUnlock", "TryLock"}
     /\ pc[g] \notin {"pickRUnlock", "TryLock"}) => (locked[h] # locked[g])

\* C6 amended: a handler whose TryLock finds the mutex held does not wait: it
\* closes its connection without an ack and goes to return; a handler that
\* has not acquired a path changes no busy flag and no transfers counter; a
\* TryLock that finds the mutex free acquires it, also for the handler that
\* picked the path together with an earlier holder.
C6_LoserClosesWithoutAck ==
  [][\A h \in Conns :
       /\ (pc[h] = "TryLock" /\ pc'[h] # "TryLock")
          => IF mutex[plot[h]] # 0
             THEN /\ pc'[h] = "dWgDone"
                  /\ conn'[h] = [state |-> "closed", acks |-> 0]
                  /\ mutex' = mutex
             ELSE mutex'[plot[h]] = h /\ locked'[h]
       /\ (pc'[h] # pc[h] /\ ~locked'[h] /\ pc[h] # "pickPlot")
          => /\ busy' = busy
             /\ transfers' = transfers /\ ptransfers' = ptransfers
             /\ conn'[h].acks = 0]_vars

\* C6 witness: a handler lost the TryLock to a handler that held the same
\* pick, and is about to return with its connection closed and no ack.
C6_Witness ==
  \E h \in Conns : \E g \in rivals[h] :
    /\ pc[h] = "dWgDone" /\ ~locked[h] /\ Holding(g)
    /\ plot[g] = plot[h]
    /\ conn[h] = [state |-> "closed", acks |-> 0]

\* C7: the process has not exited while a handler of an accepted connection
\* has not returned.
C7_ExitWaitsForHandlers ==
  proc = "exited" => Quiescent

\* C8: a path is paused as long as the 5 minutes of a pause() call on it are
\* still running.
C8_PausedUntilDeadline ==
  \A p \in Paths : timers[p].pending > 0 => paused[p]

\* C9: when a transfer has completed (handleMove returned true and the cache
\* file was removed), none of <cache>/<name>.tmp, <cache>/<name> and
\* <dest>/<name>.tmp exists and <dest>/<name> exists.
C9_OnlyFinalFileRemains ==
  \A h \in Conns :
    (pc[h] = "updateFreeSpacePlot" /\ ok[h])
    => /\ File(tmpfile(h)) = NoFile
       /\ File(dstfile(h)) = NoFile
       /\ File(tmpdstfile(h)) = NoFile
       /\ File(dstplot(h)) # NoFile

\* C10: when handleMove has renamed the file to <dest>/<name>, its content is
\* the payload the producer of this connection delivered.
C10_FinalFileIsOwnPayload ==
  \A h \in Conns :
    pc[h] = "removeCache"
    => File(dstplot(h)) = [owner |-> h, src |-> h, len |-> sent[h]]

\* C11: when handleMove has committed a transfer to <dest>/<name>, the byte
\* length of that file equals the size declared in the 8-byte header, also
\* when the producer closed the connection after fewer bytes.
C11_FinalLengthIsDeclaredSize ==
  \A h \in Conns :
    pc[h] = "removeCache" => File(dstplot(h)).len = size[h]

\* the handler of h is returning after an error of io.Copy: its deferred
\* calls have run up to the Unlock, it still holds its destination path
Returning(h, e) == pc[h] = "dUnlock" /\ err[h] = e

\* C12: if the copy from the cache file to <dest>/<name>.tmp fails, then when
\* the handler returns <dest>/<name>.tmp does not exist, the handler has
\* created no <dest>/<name>, the cache copy <cache>/<name> still exists, and
\* the destination path is paused (as long as 5 minutes of a pause run).
C12_MoveFailureKeepsCacheCopy ==
  \A h \in Conns :
    Returning(h, "tf")
    => /\ File(tmpdstfile(h)) = NoFile
       /\ File(dstplot(h)).owner # h
       /\ File(dstfile(h)) # NoFile
       /\ timers[plot[h]].pending > 0 => paused[plot[h]]

\* C13: if the copy from the connection to <cache>/<name>.tmp fails, then
\* when the handler returns the cache file it created is removed, the
\* destination path is paused (as long as 5 minutes of a pause run) and the
\* cache path is not, the move was never started, and no file with the
\* payload of this connection is on a destination.
C13_ReceiveFailureCleansUp ==
  \A h \in Conns :
    Returning(h, "conn")
    => /\ \A f \in DOMAIN fs : File(f).owner # h
       /\ timers[plot[h]].pending > 0 => paused[plot[h]]
       /\ ~paused[cachePlot[h]]
       /\ tf[h] = 0 /\ ~ok[h]
       /\ \A f \in DOMAIN fs : f[1] \notin CachePaths => File(f).src # h

\* C14: the ack byte is written at most once per connection, and the write
\* finds the handler holding the mutex of its destination path, the busy
\* flag set, the cache group's and the destination group's transfers
\* incremented and a cache path obtained and counted; these were done in this
\* order (the busy flag is stored under the mutex, the counters move with
\* the flag set, the cache pick follows both increments); a handler that
\* failed a step has written no ack.
C14_AckOnceAfterAcquisition ==
  /\ [][\A h \in Conns :
          conn'[h].acks # conn[h].acks
          => /\ conn[h].acks = 0 /\ conn'[h].acks = 1
             /\ mutex[plot[h]] = h /\ busy[plot[h]]
             /\ transfers[CacheGroup] >= 1 /\ transfers[pg[h]] >= 1
             /\ cachePlot[h] \in CachePaths
             /\ ptransfers[cachePlot[h]] >= 1]_vars
  /\ [](\A h \in Conns :
          /\ pc[h] = "busyStore" => mutex[plot[h]] = h
          /\ pc[h] \in {"cacheGroupAdd", "pgAdd"}
             => mutex[plot[h]] = h /\ busy[plot[h]]
          /\ pc[h] = "pickCache"
             => busy[plot[h]] /\ transfers[CacheGroup] >= 1
                /\ transfers[pg[h]] >= 1
          /\ (\/ ~locked[h]
              \/ (pc[h] \in {"cacheNilClose", "dPgAdd"} /\ cachePlot[h] = Nil))
             => conn[h].acks = 0)

\* C14 witness: one handler has written its ack, another has returned
\* without one after the cache pick gave it nothing.
C14_Witness ==
  \E h, g \in Conns :
    /\ conn[h].acks = 1 /\ InPipeline(h)
    /\ pc[g] = "done" /\ locked[g] /\ conn[g] = [state |-> "closed", acks |-> 0]

\* the deferred calls of the handler of h are running
Unwinding(h) ==
  pc[h] \in {"dFClose", "dConnClose", "dCachePlotAdd", "dSortCachePathsLock",
             "dSortCachePaths", "dPgAdd", "dSortGroupsLock", "dSortGroups",
             "dCacheGroupAdd", "dBusyStore", "dUnlock", "dWgDone", "dWgLoad",
             "dWgStore", "dWgRelease"}

\* C15: a handler that received a filename holding a path separator creates
\* no file, on the cache path or anywhere else, and returns with its
\* connection closed.
C15_SeparatorRejected ==
  \A h \in Conns :
    HasSeparator(filename[h])
    => /\ \A f \in DOMAIN fs : File(f).owner # h
       /\ (Unwinding(h) /\ pc[h] \notin {"dFClose", "dConnClose"})
          => conn[h].state = "closed"

\* C16: a handler that decodes a filename length outside 1..32767 rejects
\* it: its next step is to close the connection and return, releasing its
\* counters and its destination path (its deferred calls), with no panic;
\* it creates no file.
C16_BadLengthRejected ==
  /\ [][\A h \in Conns :
          (/\ pc[h] = "readFnlen" /\ pc'[h] # pc[h]
           /\ convertBytesToInt16(fnlenBytes'[h]) \notin 1..(2^15 - 1))
          => pc'[h] = "dConnClose" /\ err'[h] = Nil]_vars
  /\ [](\A h \in Conns :
          (/\ InPipeline(h) /\ pc[h] \notin {"handleTransfer", "readFnlen"}
           /\ convertBytesToInt16(fnlenBytes[h]) \notin 1..(2^15 - 1))
          => inode[cacheIno(h)] = NoInode)

\* C17: whenever no handler holds a destination path, the path's busy flag
\* is false and its mutex is free, also after a handler that had acquired it
\* aborted (no cache path, receive failed, move failed).
C17_ReleasedPathIsFree ==
  \A p \in DestPaths :
    (\A h \in Conns : ~(Holding(h) /\ plot[h] = p))
    => ~busy[p] /\ mutex[p] = 0

\* C17 witness: a handler acquired a destination, got no cache path and has
\* returned without an ack; the same path is now held by another handler.
C17_Witness ==
  \E h, g \in Conns :
    /\ h # g /\ plot[g] = plot[h]
    /\ pc[h] = "done" /\ locked[h] /\ conn[h].acks = 0
    /\ Holding(g) /\ busy[plot[g]]

\* C18 as stated: in every state a path's busy flag is true exactly when its
\* mutex is held.
C18_BusyIffMutexHeld ==
  \A p \in Paths : busy[p] <=> mutex[p] # 0

\* C18 amended: a path's busy flag is true only while its mutex is held by a
\* handler that chose the path as its destination; the mutex is held with
\* the flag false only while the holder is between its TryLock and its
\* busy.Store(true), or between its deferred busy.Store(false) and Unlock.
C18_BusyOnlyUnderMutex ==
  \A p \in Paths :
    /\ busy[p] => \E h \in Conns : mutex[p] = h /\ plot[h] = p /\ Holding(h)
    /\ (mutex[p] # 0 /\ ~busy[p])
       => /\ plot[mutex[p]] = p
          /\ pc[mutex[p]] \in {"busyStore", "dUnlock"}

\* C18 witness: one handler is in the pipeline with its path busy and locked
\* while another has locked a path and not yet set its flag.
C18_Witness ==
  \E h, g \in Conns :
    /\ h # g /\ InPipeline(h) /\ busy[plot[h]] /\ mutex[plot[h]] = h
    /\ pc[g] = "busyStore" /\ mutex[plot[g]] = g /\ ~busy[plot[g]]

\* the first path of seq that is neither busy nor paused
RECURSIVE FirstEligible(_)
FirstEligible(seq) ==
  IF seq = <<>> THEN Nil
  ELSE IF busy[Head(seq)] \/ paused[Head(seq)] THEN FirstEligible(Tail(seq))
  ELSE Head(seq)

\* C19: a cache pick made while the cache group is below its cap returns the
\* first cache path of the sequence that is neither busy nor paused, whatever
\* that path's recorded free space is relative to size.
C19_CachePickIgnoresSize ==
  [][\A h \in Conns :
       (/\ pc[h] = "pickCache" /\ pc'[h] # pc[h]
        /\ transfers[CacheGroup] < concurrency[CacheGroup])
       => /\ cachePlot'[h] = FirstEligible(sortedPlots[CacheGroup])
          /\ pc'[h] = "cachePlotAdd"]_vars

\* C20 as stated: a destination pick does not return a path whose free space
\* equals the size of the request.
C20_TieIsInsufficient ==
  [][\A h \in Conns :
       (pc[h] = "pickPlot" /\ plot'[h] # Nil)
       => freeSpace[plot'[h]] # size[h]]_vars

\* C20 amended: the test size > freeSpace turns away only a larger request.
\* A destination pick returns a path whose free space is at least the size,
\* and when its walk reaches a group below its cap whose first path neither
\* busy nor paused has exactly the size free, the pick returns that path.
C20_TieIsSufficient ==
  [][\A h \in Conns :
       (pc[h] = "pickPlot" /\ pc'[h] # pc[h])
       => LET g == sortedGroups[walk[h]]
              v == FirstEligible(sortedPlots[g])
          IN /\ plot'[h] # Nil => size[h] <= freeSpace[plot'[h]]
             /\ (/\ transfers[g] < concurrency[g]
                 /\ v # Nil
                 /\ freeSpace[v] = size[h])
                => plot'[h] = v /\ pg'[h] = g]_vars

\* C20 witness: a handler has just been given a path whose free space equals
\* the size it declared.
C20_Witness ==
  \E h \in Conns :
    pc[h] = "TryLock" /\ size[h] = MaxSize /\ freeSpace[plot[h]] = size[h]

\* the paths of seq that are neither busy nor paused, in the order of seq
Eligible(seq) == SelectSeq(seq, LAMBDA v : ~busy[v] /\ ~paused[v])

\* C21: every destination pick, in every interleaving with the other
\* handlers' refreshes and sorts, walks the paths neither busy nor paused of
\* each group in descending order of free space; a path it returns has
\* free space >= size, and when a group below its cap yields nothing, none
\* of its paths neither busy nor paused has free space >= size.
C21_DestinationPickExact ==
  [][\A h \in Conns :
       (pc[h] = "pickPlot" /\ pc'[h] # pc[h])
       => /\ plot'[h] # Nil => freeSpace[plot'[h]] >= size[h]
          /\ \A g \in DestGroups :
               LET e == Eligible(sortedPlots[g]) IN
               /\ \A i, j \in 1..Len(e) :
                    i < j => freeSpace[e[i]] >= freeSpace[e[j]]
               /\ (transfers[g] < concurrency[g] /\ pickPlot(g, size[h]) = Nil)
                  => \A i \in 1..Len(e) : freeSpace[e[i]] < size[h]]_vars

\* C21 witness: a pick walked a group of concurrency above 1 while another
\* handler of the group had stored the new free space of its path and not
\* yet sorted the group: the group below its cap, the refreshed path out of
\* order in the sequence, two paths neither busy nor paused, the first of
\* them too small, and the pick yielded nothing.
C21_Witness ==
  \E h, k \in Conns :
    /\ h # k
    /\ pc[h] = "nilClose"
    /\ pg[k] \in DestGroups /\ plot[k] \in unsorted[h]
    /\ pc[k] \in {"updateFreeSpaceCache", "storeFreeSpaceCache",
                  "sortPathsLock", "sortPaths"}
    /\ concurrency[pg[k]] > 1
    /\ transfers[pg[k]] < concurrency[pg[k]]
    /\ sortedPlots[pg[k]] # sortPaths(pg[k], freeSpace)
    /\ LET e == Eligible(sortedPlots[pg[k]]) IN
         /\ Len(e) >= 2
         /\ freeSpace[e[1]] < size[h]


\* the next step of the handler of h is a re-sort: s.sortGroups,
\* sortCachePaths or sortPaths, each taking its sort lock for writing
Sorting(h) ==
  pc[h] \in {"sortGroupsLock", "sortGroups", "sortCachePathsLock",
             "sortCachePaths", "sortPathsLock", "sortPaths",
             "dSortCachePathsLock", "dSortCachePaths", "dSortGroupsLock",
             "dSortGroups"}

\* C22: a handler never re-sorts (takes the sink's or a group's sort lock
\* for writing) while it holds the mutex of a path; a sort lock is never
\* taken after a path mutex.
C22_NoSortUnderPathMutex ==
  [][\A h \in Conns :
       (Sorting(h) /\ pc'[h] # pc[h]) => \A p \in DestPaths : mutex[p] # h]_vars


\* the steps of the handler of h that take a lock: the TryLock of the path
\* mutex, the read locks of the picks, the two parts of the Lock of a sort
LockStep(h) ==
  \/ TryLock(h)
  \/ PickRLock(h) \/ PgRLock(h) \/ PickCacheRLock(h)
  \/ SortGroupsLock(h) \/ SortGroups(h)
  \/ SortCachePathsLock(h) \/ SortCachePaths(h)
  \/ SortPathsLock(h) \/ SortPaths(h)

\* the handler of h waits for a lock: the process runs, the next step of
\* the handler takes a lock, and the lock is not free
Waits(h) ==
  /\ Alive
  /\ pc[h] \in {"TryLock", "pickRLock", "pgRLock", "pickCacheRLock",
                "sortGroupsLock", "sortGroups", "dSortGroupsLock",
                "dSortGroups", "sortCachePathsLock", "sortCachePaths",
                "dSortCachePathsLock", "dSortCachePaths", "sortPathsLock",
                "sortPaths"}
  /\ ~ENABLED LockStep(h)

\* the handler of h holds a sort lock: for reading, or for writing (its Lock
\* has returned)
HoldsSortLock(h) ==
  \E m \in SortLocks : h \in sortMutex[m].r \/ Locked(m, h)

\* the goroutine of h runs handleConnection
Running(h) == pc[h] \notin {"idle", "done", "panicked"}

\* the handler of h has returned and holds nothing
Exited(h) ==
  /\ pc[h] = "done"
  /\ \A p \in Paths : mutex[p] # h
  /\ \A m \in SortLocks : h \notin sortMutex[m].r /\ sortMutex[m].w # h

\* no state is a deadlock among handlers: when a handler waits for a lock,
\* another handler is running and does not wait
NoDeadlock ==
  \A h \in Conns :
    Waits(h) => \E k \in Conns : k # h /\ Running(k) /\ ~Waits(k)

\* a handler never waits for a path mutex
TryLockNeverWaits ==
  \A h \in Conns : pc[h] = "TryLock" => ~Waits(h)

\* a handler that holds a sort lock waits for nothing
SortLockHolderNeverWaits ==
  \A h \in Conns : HoldsSortLock(h) => ~Waits(h)

\* a handler that holds a sort lock waits for nothing but the sort lock of
\* a group, under the read lock of the sink (the order sink, then group),
\* and the handler that has that lock holds no other and does not wait
SortLockHolderWaitsInOrder ==
  \A h \in Conns :
    (HoldsSortLock(h) /\ Waits(h))
    => /\ pc[h] = "pgRLock"
       /\ \A m \in SortLocks : h \in sortMutex[m].r => m = SinkLock
       /\ \E k \in Conns : \E g \in DestGroups :
            /\ Locked(g, k) /\ ~Waits(k)
            /\ \A m \in SortLocks \ {g} :
                 k \notin sortMutex[m].r /\ sortMutex[m].w # k

\* every accepted handler returns, holding nothing
HandlersExit ==
  \A h \in Conns : (pc[h] = "spawned") ~> Exited(h)

\* every accepted handler returns, holding nothing, unless the process ends
HandlersExitWhileProcessRuns ==
  \A h \in Conns : (pc[h] = "spawned") ~> (Exited(h) \/ ~Alive)

\* once every accepted handler has returned the counters, the mutexes, the
\* sort locks and the WaitGroup are back at zero
AllReleased ==
  Quiescent
  => /\ wg = 0
     /\ \A g \in Groups : transfers[g] = 0
     /\ \A p \in Paths : ptransfers[p] = 0 /\ mutex[p] = 0
     /\ \A m \in SortLocks : sortMutex[m] = [w |-> 0, r |-> {}]

\* C23: no state is a deadlock among handlers; a handler never waits for a
\* path mutex; a handler that holds a sort lock waits for nothing; every
\* accepted handler, its network and file operations returning, returns
\* holding nothing, and once all have returned the counters, the mutexes and
\* the WaitGroup are back at zero.
C23_NoHandlerBlocks ==
  /\ []NoDeadlock
  /\ []TryLockNeverWaits
  /\ []SortLockHolderNeverWaits
  /\ HandlersExit
  /\ []AllReleased

\* the locks while the process runs: no deadlock, no wait for a path mutex,
\* a wait under a sort lock only in the order sink, then group; with
\* HandlersExitWhileProcessRuns, what holds of C23
LocksInOrder ==
  /\ NoDeadlock
  /\ TryLockNeverWaits
  /\ SortLockHolderWaitsInOrder
  /\ AllReleased

\* a handler waits for the sort lock of a group under the read lock of the
\* sink
NestedWait ==
  \E h \in Conns : HoldsSortLock(h) /\ Waits(h)

\* the process has ended under a handler that holds its destination path
EndedUnderHandler ==
  ~Alive /\ \E h \in Conns : Holding(h) /\ mutex[plot[h]] = h


\* C24: the cache path returned by the cache pick has, when it is returned,
\* the smallest per-path transfers counter among the cache paths that are
\* not paused.
C24_CachePickLeastLoaded ==
  [][\A h \in Conns :
       (pc[h] = "pickCache" /\ pc'[h] = "cachePlotAdd")
       => \A p \in CachePaths :
            ~paused[p] => ptransfers[cachePlot'[h]] <= ptransfers[p]]_vars


============================================================================
